---- MODULE Spec2Model ----
(***************************************************************************)
(* MEmoX retrieval engine: VectorStore (src/src/rag/vectorStore.ts) and    *)
(* RAGManager (rag/ragManager.ts), with the callers in extension.ts and    *)
(* ChatPanel.ts that run them concurrently on one event loop.              *)
(*                                                                         *)
(* One step of the model is one run-to-completion turn of the JavaScript   *)
(* event loop: the code between two awaits of one async function.          *)
(***************************************************************************)
EXTENDS Integers, Sequences, FiniteSets, TLC

\* ------------------------------------------------------------------ bounds
\* Number of search / getRelevantContext calls the chat side makes per session.
MaxQueryCalls == 2
\* Largest k passed to a direct search call.
MaxK == 2
\* A new extension-host session is started only while the index file holds
\* at most this many records.
MaxReload == 1
\* indexWorkspace runs in a row that the re-indexing specification follows
MaxRuns == 2
\* chunks of mixed files handed to one getRelevantContext call
MaxRetrieved == 4
\* files of one large chunk each handed to one getRelevantContext call
MaxFiles == 6
\* lines of a document whose lines are chosen freely
MaxLines == 4
\* lines of the longest run of equal lines a document begins with
MaxRun == 53

\* Sign-in operations followed in one session.
MaxAuthOps == 3

\* addMessage calls followed in one session of the history manager.
MaxAdded == 2

\* sendMessage messages followed in one session of the chat views.
MaxSends == 2

\* Sign-in operations and messages started in one session of the chat views.
MaxGateOps == 3

\* ------------------------------------------------------- program constants
\* getRelevantContext asks search for the top 10 chunks.
TopK == 10
\* Default maxTokens of getRelevantContext; every caller uses the default.
DefaultMaxTokens == 1536
\* Merge distance, in lines, between a chunk and the previous merged chunk.
MergeGap == 3
\* At most this many files share the token budget.
MaxBudgetFiles == 5

Min(a, b) == IF a <= b THEN a ELSE b
Max(a, b) == IF a >= b THEN a ELSE b

\* --------------------------------------------------------------- workspace
\* A CodeChunk as the chunker returns it.
CodeChunk(content, filename, language, startLine, endLine, type) ==
  [content |-> content,
   metadata |-> [filename |-> filename, language |-> language,
                 startLine |-> startLine, endLine |-> endLine, type |-> type]]

\* The files findFiles enumerates, each with the chunks chunkFile yields for it.
\* a.ts splits into two adjacent chunks, b.md is a one-line file.
WorkspaceFiles ==
  << [fsPath |-> "a.ts",
      chunks |-> << CodeChunk("c1", "a.ts", "typescript", 0, 5, "function"),
                    CodeChunk("c2", "a.ts", "typescript", 6, 10, "block") >>],
     [fsPath |-> "b.md",
      chunks |-> << CodeChunk("c3", "b.md", "markdown", 0, 0, "markdown") >>] >>

\* Character length of a chunk's content (String.length).
ContentLength(content) ==
  CASE content = "c1" -> 120
    [] content = "c2" -> 80
    [] content = "c3" -> 40
    [] content = "k7000" -> 7000
    [] content = "k7500" -> 7500
    [] content = "k8000" -> 8000
    [] content = "k40000" -> 40000
    [] OTHER -> 0

\* The query strings the chat side sends, the empty string included.
Queries == {"", "explain in file a.ts"}

\* query.match(/\b(in|file|path|module)\b.+?([a-zA-Z0-9_\-./]+\.[a-zA-Z0-9]+)/i):
\* group 2 of the match, or "null" when the query does not match.
specificFile(query) ==
  CASE query = "explain in file a.ts" -> "a.ts"
    [] query = "the path of A.ts" -> "A.ts"
    [] query = "what is in lib.rs" -> "lib.rs"
    [] OTHER -> "null"

\* ---------------------------------------------------------------- embedder
\* The feature-extraction pipeline with pooling 'mean', normalize true: a
\* fixed function from text to a non-zero vector (cosine ignores the scale).
getEmbedding(text) ==
  CASE text = "c1" -> <<1, 0>>
    [] text = "c2" -> <<1, 1>>
    [] text = "c3" -> <<0, 1>>
    [] text = "" -> <<1, 2>>
    [] OTHER -> <<2, 1>>

\* ------------------------------------------------------- cosine similarity
RECURSIVE DotUpTo(_, _, _)
DotUpTo(a, b, n) == IF n = 0 THEN 0 ELSE DotUpTo(a, b, n - 1) + a[n] * b[n]

\* cosineSimilarity keeps the three sums of the loop; the value it returns is
\* dot / (sqrt(normA) * sqrt(normB)), NaN when a norm is 0.
cosineSimilarity(a, b) ==
  [dot |-> DotUpTo(a, b, Len(a)),
   normA |-> DotUpTo(a, a, Len(a)),
   normB |-> DotUpTo(b, b, Len(a))]

IsNaN(s) == s.normA * s.normB = 0

\* x * |x|: comparing signed squares compares the quotients exactly.
SignedSquare(x) == IF x >= 0 THEN x * x ELSE 0 - x * x

\* Sign of s - t for two similarity values (0 when either is NaN, as a
\* comparator result of NaN counts as equal).
ScoreDiff(s, t) ==
  IF IsNaN(s) \/ IsNaN(t) THEN 0
  ELSE LET l == SignedSquare(s.dot) * t.normA * t.normB
           r == SignedSquare(t.dot) * s.normA * s.normB
       IN IF l > r THEN 1 ELSE IF l < r THEN 0 - 1 ELSE 0

\* Mutant: ascending comparator (a.score - b.score).
ScoreCompareAscending(a, b) == ScoreDiff(a.score, b.score)

\* scored.sort((a, b) => b.score - a.score)
ScoreCompare(a, b) == ScoreDiff(b.score, a.score)

\* Array.prototype.sort is stable: an element goes after every element the
\* comparator does not put behind it.
RECURSIVE InsertScored(_, _)
InsertScored(sorted, x) ==
  IF sorted = <<>> THEN <<x>>
  ELSE IF ScoreCompare(Head(sorted), x) <= 0
       THEN <<Head(sorted)>> \o InsertScored(Tail(sorted), x)
       ELSE <<x>> \o sorted

RECURSIVE SortScored(_, _)
SortScored(scored, n) ==
  IF n = 0 THEN <<>> ELSE InsertScored(SortScored(scored, n - 1), scored[n])

\* Array.prototype.slice(0, k) for k >= 0.
Slice(s, k) == SubSeq(s, 1, Min(k, Len(s)))

\* The synchronous part of VectorStore.search: score every record, sort, cut.
\* A returned chunk is the stored object itself, so the result is the
\* sequence of positions in data of the records whose chunk is returned.
searchRanking(store, queryEmbedding, k) ==
  LET scored == [i \in 1..Len(store) |->
                   [ref |-> i,
                    score |-> cosineSimilarity(queryEmbedding, store[i].embedding)]]
      sorted == SortScored(scored, Len(scored))
      top == Slice(sorted, k)
  IN [i \in 1..Len(top) |-> top[i].ref]

\* ------------------------------------------------------------- persistence
\* JSON.stringify(this.data, null, 2): one JSON object per record, written
\* here as the tuple of its values in key order.
Stringify(store) ==
  [i \in 1..Len(store) |->
     << store[i].chunk.content,
        store[i].chunk.metadata.filename,
        store[i].chunk.metadata.language,
        store[i].chunk.metadata.startLine,
        store[i].chunk.metadata.endLine,
        store[i].chunk.metadata.type,
        store[i].embedding >>]

\* JSON.parse of the file text.
Parse(text) ==
  [i \in 1..Len(text) |->
     [chunk |-> CodeChunk(text[i][1], text[i][2], text[i][3],
                          text[i][4], text[i][5], text[i][6]),
      embedding |-> text[i][7]]]

NoFile == [exists |-> FALSE, text |-> <<>>]

\* save(): writeFileSync overwrites the whole file.
save(store) == [exists |-> TRUE, text |-> Stringify(store)]

\* Mutant: load() that ignores the file.
loadNothing(file) == <<>>

\* load(): the parsed file when it exists, else the empty initial array.
load(file) == IF file.exists THEN Parse(file.text) ELSE <<>>

\* ------------------------------------------------ context assembly (pure)
\* Filenames of the retrieved chunks in first-seen order: the keys of the
\* fileChunks object.
RECURSIVE groupKeys(_, _, _)
groupKeys(refs, store, n) ==
  IF n = 0 THEN <<>>
  ELSE LET keys == groupKeys(refs, store, n - 1)
           filename == store[refs[n]].chunk.metadata.filename
       IN IF \E i \in 1..Len(keys) : keys[i] = filename
          THEN keys ELSE Append(keys, filename)

\* fileChunks[filename]: the retrieved chunks of one file, in rank order.
RECURSIVE chunksOfFile(_, _, _, _)
chunksOfFile(refs, store, filename, n) ==
  IF n = 0 THEN <<>>
  ELSE IF store[refs[n]].chunk.metadata.filename = filename
       THEN Append(chunksOfFile(refs, store, filename, n - 1), refs[n])
       ELSE chunksOfFile(refs, store, filename, n - 1)

\* String.prototype.toLowerCase on one character of a file name.
LowerChar(c) ==
  CASE c = "A" -> "a" [] c = "B" -> "b" [] c = "C" -> "c" [] c = "D" -> "d"
    [] c = "E" -> "e" [] c = "F" -> "f" [] c = "G" -> "g" [] c = "H" -> "h"
    [] c = "I" -> "i" [] c = "J" -> "j" [] c = "K" -> "k" [] c = "L" -> "l"
    [] c = "M" -> "m" [] c = "N" -> "n" [] c = "O" -> "o" [] c = "P" -> "p"
    [] c = "Q" -> "q" [] c = "R" -> "r" [] c = "S" -> "s" [] c = "T" -> "t"
    [] c = "U" -> "u" [] c = "V" -> "v" [] c = "W" -> "w" [] c = "X" -> "x"
    [] c = "Y" -> "y" [] c = "Z" -> "z" [] OTHER -> c

RECURSIVE toLowerCase(_)
toLowerCase(str) ==
  IF Len(str) = 0 THEN ""
  ELSE LowerChar(SubSeq(str, 1, 1)) \o toLowerCase(SubSeq(str, 2, Len(str)))

\* String.prototype.includes: part occurs in str at some position.
includes(str, part) ==
  \E i \in 1..(Len(str) - Len(part) + 1) :
     SubSeq(str, i, i + Len(part) - 1) = part

\* f.toLowerCase().includes(specificFile.toLowerCase())
fileNameIncludes(f, wanted) == includes(toLowerCase(f), toLowerCase(wanted))

DigitValue(c) ==
  CASE c = "0" -> 0 [] c = "1" -> 1 [] c = "2" -> 2 [] c = "3" -> 3
    [] c = "4" -> 4 [] c = "5" -> 5 [] c = "6" -> 6 [] c = "7" -> 7
    [] c = "8" -> 8 [] c = "9" -> 9 [] OTHER -> 0 - 1

RECURSIVE DecimalValue(_, _)
DecimalValue(str, n) ==
  IF n = 0 THEN 0
  ELSE DecimalValue(str, n - 1) * 10 + DigitValue(SubSeq(str, n, n))

\* The array index a property key denotes, -1 when it is none: the key is
\* the canonical decimal form of an integer (names of ten or more characters,
\* which reach 2^32 - 1, do not occur in the model).
arrayIndex(key) ==
  IF /\ Len(key) \in 1..9
     /\ \A i \in 1..Len(key) : DigitValue(SubSeq(key, i, i)) >= 0
     /\ (Len(key) = 1 \/ SubSeq(key, 1, 1) # "0")
  THEN DecimalValue(key, Len(key))
  ELSE 0 - 1

RECURSIVE insertByIndex(_, _)
insertByIndex(sorted, key) ==
  IF sorted = <<>> THEN <<key>>
  ELSE IF arrayIndex(Head(sorted)) <= arrayIndex(key)
       THEN <<Head(sorted)>> \o insertByIndex(Tail(sorted), key)
       ELSE <<key>> \o sorted

\* Mutant: an object lists its keys in creation order whatever they are.
ownKeysInCreationOrder(created) == created

\* The order in which Object.keys and for-in list the keys of an object
\* whose properties were created in the order given: array indices first, in
\* ascending numeric order, then the other keys in creation order.
RECURSIVE ownKeys(_)
ownKeys(created) ==
  IF created = <<>> THEN <<>>
  ELSE LET n == Len(created)
           rest == ownKeys(SubSeq(created, 1, n - 1))
           key == created[n]
           indices == Cardinality({i \in 1..Len(rest) : arrayIndex(rest[i]) >= 0})
       IN IF arrayIndex(key) >= 0
          THEN insertByIndex(SubSeq(rest, 1, indices), key)
               \o SubSeq(rest, indices + 1, Len(rest))
          ELSE Append(rest, key)

RECURSIVE filterKeys(_, _, _, _)
filterKeys(keys, wanted, keep, n) ==
  IF n = 0 THEN <<>>
  ELSE IF fileNameIncludes(keys[n], wanted) = keep
       THEN Append(filterKeys(keys, wanted, keep, n - 1), keys[n])
       ELSE filterKeys(keys, wanted, keep, n - 1)

\* orderedFiles: matchingFiles, then the keys that are not among them.
orderedFiles(keys, wanted) ==
  filterKeys(keys, wanted, TRUE, Len(keys))
    \o filterKeys(keys, wanted, FALSE, Len(keys))

\* The keys of fileChunks after the "specific file" step: when the query
\* names a file and some key matches, those of reorderedFileChunks, whose
\* properties are created in the order of orderedFiles; else unchanged.
prioritizedKeys(keys, query) ==
  LET wanted == specificFile(query)
      matchingFiles == filterKeys(keys, wanted, TRUE, Len(keys))
  IN IF wanted # "null" /\ Len(matchingFiles) > 0
     THEN ownKeys(orderedFiles(keys, wanted))
     ELSE keys

\* fileChunks[filename].sort((a, b) => a.metadata.startLine - b.metadata.startLine)
RECURSIVE insertByStartLine(_, _, _)
insertByStartLine(sorted, ref, store) ==
  IF sorted = <<>> THEN <<ref>>
  ELSE IF store[Head(sorted)].chunk.metadata.startLine
            <= store[ref].chunk.metadata.startLine
       THEN <<Head(sorted)>> \o insertByStartLine(Tail(sorted), ref, store)
       ELSE <<ref>> \o sorted

RECURSIVE sortByStartLine(_, _, _)
sortByStartLine(refs, store, n) ==
  IF n = 0 THEN <<>>
  ELSE insertByStartLine(sortByStartLine(refs, store, n - 1), refs[n], store)

\* Mutant: mergedChunks.push of a deep copy, metadata included.
mergedEndLineDetached(store, ref, endLine) == store

\* prev.metadata.endLine = ...: prev is a shallow copy {...current}, so its
\* metadata is the metadata object of the stored chunk at position ref.
mergedEndLine(store, ref, endLine) ==
  [store EXCEPT ![ref].chunk.metadata.endLine = endLine]

\* Mutant: only chunks that touch or overlap are merged.
closeToPrevAdjacent(startLine, prevEndLine) == startLine <= prevEndLine + 1

\* current.metadata.startLine <= prev.metadata.endLine + 3
closeToPrev(startLine, prevEndLine) == startLine <= prevEndLine + MergeGap

\* The merge loop over orderedChunks.  A merged chunk is [ref, endLine,
\* content]: ref is the stored chunk whose metadata it shares, endLine the
\* value its metadata.endLine holds, content the joined contents.
RECURSIVE mergeLoop(_, _, _, _)
mergeLoop(orderedChunks, i, mergedChunks, store) ==
  IF i > Len(orderedChunks) THEN [mergedChunks |-> mergedChunks, store |-> store]
  ELSE LET current == store[orderedChunks[i]].chunk
           n == Len(mergedChunks)
       IN IF n > 0 /\ closeToPrev(current.metadata.startLine, mergedChunks[n].endLine)
          THEN LET prev == mergedChunks[n]
                   endLine == Max(prev.endLine, current.metadata.endLine)
               IN mergeLoop(orderedChunks, i + 1,
                            [mergedChunks EXCEPT
                               ![n].endLine = endLine,
                               ![n].content = @ \o <<current.content>>],
                            mergedEndLine(store, prev.ref, endLine))
          ELSE mergeLoop(orderedChunks, i + 1,
                         Append(mergedChunks,
                                [ref |-> orderedChunks[i],
                                 endLine |-> current.metadata.endLine,
                                 content |-> <<current.content>>]),
                         store)

\* Number of decimal digits of a line number.
RECURSIVE Digits(_)
Digits(n) == IF n < 10 THEN 1 ELSE 1 + Digits(n \div 10)

\* fullChunkHeader.length: "\n// Lines " + start + "-" + end + comment + ":\n".
chunkHeaderLength(startLine, endLine, type) ==
  10 + Digits(startLine) + 1 + Digits(endLine)
     + (IF type = "function" THEN 11 ELSE IF type = "class" THEN 8 ELSE 0) + 2

\* Length of contents joined with '\n'.
RECURSIVE joinedLength(_, _)
joinedLength(content, n) ==
  IF n = 0 THEN 0
  ELSE joinedLength(content, n - 1) + ContentLength(content[n])
       + (IF n > 1 THEN 1 ELSE 0)

\* Token costs are kept multiplied by 25, which keeps them whole numbers:
\* totalChunkTokens = (header + content) characters * 4 / 100.
TokenScale(tokens) == tokens * 25

\* fileHeader.split(/\s+/).length for "\n--- File: <name> ---\n", a name
\* without white space: "", "---", "File:", name, "---", "".
headerTokens(filename) == TokenScale(6)

\* Mutant: every file may use the whole budget.
targetWholeBudget(maxTokens, fileCount) == maxTokens

\* Math.floor(maxTokens / Math.min(Object.keys(fileChunks).length, 5))
targetTokensPerFile(maxTokens, fileCount) ==
  maxTokens \div Min(fileCount, MaxBudgetFiles)

\* Mutant: a block is appended whatever the total becomes.
fitsAlways(tokens, maxTokens) == TRUE

\* currentTokens + fileTokens <= maxTokens (and, negated, the test that ends
\* the loop before a header that does not fit).
fits(tokens, maxTokens) == tokens <= TokenScale(maxTokens)

\* The loop over mergedChunks of one file: the chunks placed in the block and
\* the block's token cost, stopping at the first chunk over the file budget.
RECURSIVE chunkLoop(_, _, _, _, _)
chunkLoop(mergedChunks, i, store, target, acc) ==
  IF i > Len(mergedChunks) THEN acc
  ELSE LET chunk == mergedChunks[i]
           meta == store[chunk.ref].chunk.metadata
           totalChunkTokens ==
             chunkHeaderLength(meta.startLine, meta.endLine, meta.type)
             + joinedLength(chunk.content, Len(chunk.content)) + 1
       IN IF acc.fileTokens + totalChunkTokens > TokenScale(target)
          THEN [acc EXCEPT !.includeCompleteFile = FALSE]
          ELSE chunkLoop(mergedChunks, i + 1, store, target,
                         [acc EXCEPT
                            !.fileTokens = @ + totalChunkTokens,
                            !.chunks = Append(@, [startLine |-> meta.startLine,
                                                  endLine |-> meta.endLine,
                                                  type |-> meta.type,
                                                  content |-> chunk.content])])

\* The loop over the file groups.  acc carries the store (whose chunk
\* metadata the merge writes), currentTokens, the two file lists and the
\* blocks appended to context.
RECURSIVE fileLoop(_, _, _, _, _)
fileLoop(keys, i, refs, maxTokens, acc) ==
  IF i > Len(keys) THEN acc
  ELSE
    LET filename == keys[i]
    IN IF ~fits(acc.currentTokens + headerTokens(filename), maxTokens)
       THEN acc
       ELSE
         LET group == chunksOfFile(refs, acc.store, filename, Len(refs))
             orderedChunks == sortByStartLine(group, acc.store, Len(group))
             merged == mergeLoop(orderedChunks, 1, <<>>, acc.store)
             block == chunkLoop(merged.mergedChunks, 1, merged.store,
                                targetTokensPerFile(maxTokens, Len(keys)),
                                [fileTokens |-> headerTokens(filename),
                                 includeCompleteFile |-> TRUE,
                                 chunks |-> <<>>])
         IN IF fits(acc.currentTokens + block.fileTokens, maxTokens)
            THEN fileLoop(keys, i + 1, refs, maxTokens,
                   [store |-> merged.store,
                    currentTokens |-> acc.currentTokens + block.fileTokens,
                    includedFiles |->
                      IF block.includeCompleteFile
                      THEN Append(acc.includedFiles, filename)
                      ELSE acc.includedFiles,
                    partialFiles |->
                      IF block.includeCompleteFile
                      THEN acc.partialFiles
                      ELSE Append(acc.partialFiles, filename),
                    context |-> Append(acc.context,
                                 [filename |-> filename,
                                  chunks |-> block.chunks,
                                  omitted |-> ~block.includeCompleteFile])])
            ELSE [acc EXCEPT !.store = merged.store]

\* Mutant: a single retrieved chunk counts as none.
noChunksBelowTwo(refs) == Len(refs) < 2

\* !chunks || chunks.length === 0
noChunks(refs) == Len(refs) = 0

NoContextFound == "No relevant code context found for this query."

\* The body of getRelevantContext after search has returned refs: the string
\* it returns (as the parts that determine it) and the store it leaves.
assembleContext(refs, store, query, maxTokens) ==
  IF noChunks(refs)
  THEN [result |-> [kind |-> "string", text |-> NoContextFound], store |-> store]
  ELSE
    LET keys == prioritizedKeys(ownKeys(groupKeys(refs, store, Len(refs))), query)
        out == fileLoop(keys, 1, refs, maxTokens,
                        [store |-> store, currentTokens |-> 0,
                         includedFiles |-> <<>>, partialFiles |-> <<>>,
                         context |-> <<>>])
    IN [result |->
          [kind |-> "string", text |-> "Code context",
           includedFiles |-> out.includedFiles,
           partialFiles |-> out.partialFiles,
           remainingFiles |-> Len(keys) - (Len(out.includedFiles) + Len(out.partialFiles)),
           context |-> out.context],
        store |-> out.store]

\* ------------------------------------------------------ the chunker (pure)
\* CodeChunker.maxTokens and CodeChunker.overlap.
chunkerMaxTokens == 512
overlap == 50

codeLanguages ==
  {"typescript", "javascript", "python", "java", "c", "cpp", "csharp", "go",
   "rust", "php", "ruby", "swift", "kotlin"}
configLanguages == {"json", "yaml", "yml", "ini", "xml"}
markdownLanguages == {"markdown"}

\* What vscode.languages.getLanguages() answers.
recognizedLanguages ==
  codeLanguages \cup configLanguages \cup markdownLanguages \cup {"plaintext"}

\* A line of a document: its text and the number of tokens the gpt2 encoder
\* gives for it (1 when encoding the line throws).  The content of a chunk is
\* the sequence of its lines, which join('\n') and split('\n') turn into
\* each other.
Line(text, tokens) == [text |-> text, tokens |-> tokens]

\* encoder.encode(line).length
encodeLength(line) == line.tokens

RECURSIVE TokenSum(_)
TokenSum(lines) ==
  IF lines = <<>> THEN 0 ELSE encodeLength(Head(lines)) + TokenSum(Tail(lines))

\* text.trim().length > 0 fails: the text has white space only.
IsWhiteSpace(text) == \A i \in 1..Len(text) : SubSeq(text, i, i) \in {" ", "\t"}

\* chunk.content.trim().length > 0
nonEmptyAfterTrim(chunk) ==
  \E i \in 1..Len(chunk.content) : ~IsWhiteSpace(chunk.content[i].text)

\* chunks.filter(chunk => chunk.content.trim().length > 0)
RECURSIVE filterNonEmpty(_)
filterNonEmpty(pieces) ==
  IF pieces = <<>> THEN <<>>
  ELSE IF nonEmptyAfterTrim(Head(pieces))
       THEN <<Head(pieces)>> \o filterNonEmpty(Tail(pieces))
       ELSE filterNonEmpty(Tail(pieces))

\* Mutant: the next chunk starts with no line of the chunk before.
sliceNothing(lines) == <<>>

\* currentChunkLines.slice(-this.overlap)
overlapLines(lines) ==
  IF Len(lines) <= overlap THEN lines
  ELSE SubSeq(lines, Len(lines) - overlap + 1, Len(lines))

\* The for loop of splitByTokenSize from line i (counted from 1) on, and the
\* push of what remains in the buffer after it.  acc holds chunks,
\* currentChunkLines, currentTokens and currentChunkStartLine.
RECURSIVE splitLoop(_, _, _, _)
splitLoop(lines, metadata, i, acc) ==
  IF i > Len(lines)
  THEN IF Len(acc.currentChunkLines) > 0
       THEN Append(acc.chunks,
                   [content |-> acc.currentChunkLines,
                    metadata |-> [metadata EXCEPT
                       !.startLine = acc.currentChunkStartLine,
                       !.endLine = metadata.startLine + Len(lines) - 1]])
       ELSE acc.chunks
  ELSE
    LET line == lines[i]
        lineTokens == encodeLength(line)
        over == acc.currentTokens + lineTokens > chunkerMaxTokens
    IN IF over /\ Len(acc.currentChunkLines) > 0
       THEN LET kept == overlapLines(acc.currentChunkLines)
            IN splitLoop(lines, metadata, i + 1,
                 [chunks |-> Append(acc.chunks,
                    [content |-> acc.currentChunkLines,
                     metadata |-> [metadata EXCEPT
                        !.startLine = acc.currentChunkStartLine,
                        !.endLine = acc.currentChunkStartLine
                                      + Len(acc.currentChunkLines) - 1]]),
                  currentChunkLines |-> Append(kept, line),
                  currentTokens |-> TokenSum(kept) + lineTokens,
                  currentChunkStartLine |-> metadata.startLine + (i - 1) - Len(kept)])
       ELSE IF over
       THEN splitLoop(lines, metadata, i + 1,
              [acc EXCEPT
                 !.chunks = Append(@,
                    [content |-> <<line>>,
                     metadata |-> [metadata EXCEPT
                        !.startLine = metadata.startLine + (i - 1),
                        !.endLine = metadata.startLine + (i - 1),
                        !.type = "line-block"]]),
                 !.currentChunkStartLine = metadata.startLine + (i - 1) + 1])
       ELSE splitLoop(lines, metadata, i + 1,
              [acc EXCEPT
                 !.currentChunkLines = Append(@, line),
                 !.currentTokens = @ + lineTokens])

\* The chunks array of splitByTokenSize before its final filter.
splitEmitted(content, metadata) ==
  splitLoop(content, metadata, 1,
            [chunks |-> <<>>, currentChunkLines |-> <<>>, currentTokens |-> 0,
             currentChunkStartLine |-> metadata.startLine])

splitByTokenSize(content, metadata) == filterNonEmpty(splitEmitted(content, metadata))

\* (line.match(/{/g) || []).length, and the same for '}'.
CountChar(text, c) == Cardinality({i \in 1..Len(text) : SubSeq(text, i, i) = c})

\* Number of white space characters a text begins with.
RECURSIVE LeadingWhiteSpace(_)
LeadingWhiteSpace(text) ==
  IF Len(text) > 0 /\ SubSeq(text, 1, 1) \in {" ", "\t"}
  THEN 1 + LeadingWhiteSpace(SubSeq(text, 2, Len(text)))
  ELSE 0

\* line.match(/^\s*(?:function|class|def|interface|enum)\s+/)
declarationLine(text) ==
  LET from == LeadingWhiteSpace(text) + 1
  IN \E word \in {"function", "class", "def", "interface", "enum"} :
       /\ from + Len(word) <= Len(text)
       /\ SubSeq(text, from, from + Len(word) - 1) = word
       /\ SubSeq(text, from + Len(word), from + Len(word)) \in {" ", "\t"}

\* line.includes('function') || line.includes('def ') || line.includes(' class ')
elementStart(text) ==
  includes(text, "function") \/ includes(text, "def ") \/ includes(text, " class ")

\* chunks.push of currentChunk as a function or class ending at line i0, and
\* the reset that follows it.
closeUnit(acc, i0) ==
  [chunks |-> Append(acc.chunks,
      [content |-> acc.currentChunk,
       startLine |-> acc.startLine, endLine |-> i0,
       type |-> IF acc.inFunction THEN "function" ELSE "class"]),
   currentChunk |-> <<>>, startLine |-> i0 + 1,
   inFunction |-> FALSE, inClass |-> FALSE, braceCount |-> acc.braceCount]

\* One iteration of the loop of splitBySemanticUnits, for line i0 (from 0).
\* Braces are counted on lines that hold 'function', 'def ' or ' class '
\* only: the else that counts them belongs to the test of the declaration.
semanticStep(acc, line, i0) ==
  LET pushed == [acc EXCEPT !.currentChunk = Append(@, line)]
      braces == CountChar(line.text, "{") - CountChar(line.text, "}")
  IN IF elementStart(line.text)
     THEN LET begun ==
                IF Len(pushed.currentChunk) > 1
                THEN [chunks |-> Append(acc.chunks,
                         [content |-> acc.currentChunk,
                          startLine |-> acc.startLine, endLine |-> i0 - 1,
                          type |-> "block"]),
                      currentChunk |-> <<line>>, startLine |-> i0,
                      inFunction |-> FALSE, inClass |-> FALSE, braceCount |-> 0]
                ELSE pushed
          IN IF declarationLine(line.text)
             THEN LET declared ==
                        [begun EXCEPT
                           !.inFunction = @ \/ includes(line.text, "function")
                                            \/ includes(line.text, "=>"),
                           !.inClass = @ \/ includes(line.text, "class"),
                           !.braceCount = @ + braces]
                  IN IF declared.braceCount = 0
                        /\ (declared.inFunction \/ declared.inClass)
                     THEN closeUnit(declared, i0)
                     ELSE declared
             ELSE LET counted == [begun EXCEPT !.braceCount = @ + braces]
                  IN IF counted.braceCount = 0
                        /\ (counted.inFunction \/ counted.inClass)
                     THEN closeUnit(counted, i0)
                     ELSE counted
     ELSE pushed

RECURSIVE semanticLoop(_, _, _)
semanticLoop(lines, i, acc) ==
  IF i > Len(lines)
  THEN IF Len(acc.currentChunk) > 0
       THEN Append(acc.chunks,
                   [content |-> acc.currentChunk, startLine |-> acc.startLine,
                    endLine |-> Len(lines) - 1, type |-> "block"])
       ELSE acc.chunks
  ELSE semanticLoop(lines, i + 1, semanticStep(acc, lines[i], i - 1))

\* splitBySemanticUnits(content, language, filename)
splitBySemanticUnits(content, language, filename) ==
  LET units == semanticLoop(content, 1,
                 [chunks |-> <<>>, currentChunk |-> <<>>, startLine |-> 0,
                  inFunction |-> FALSE, inClass |-> FALSE, braceCount |-> 0])
  IN filterNonEmpty([k \in 1..Len(units) |->
                       CodeChunk(units[k].content, filename, language,
                                 units[k].startLine, units[k].endLine,
                                 units[k].type)])

\* Mutant: only the name README.md as written is taken for the readme.
isReadmeExactCase(filename) == filename = "README.md"

\* filename.toLowerCase() === 'readme.md'
isReadme(filename) == toLowerCase(filename) = "readme.md"

\* The chunks of chunkFile before token-size splitting: the readme whole,
\* semantic units of code, single lines of markdown, configuration and
\* unrecognised languages, else the whole text.
firstChunks(file) ==
  LET lines == file.content
      filename == file.filename
      language == file.language
  IN IF isReadme(filename)
     THEN << CodeChunk(lines, filename, language, 0, Len(lines) - 1, "whole-file") >>
     ELSE IF language \in codeLanguages
     THEN splitBySemanticUnits(lines, language, filename)
     ELSE IF \/ language \in markdownLanguages
             \/ language \in configLanguages
             \/ language \notin recognizedLanguages
     THEN [i \in 1..Len(lines) |->
             CodeChunk(<<lines[i]>>, filename, language, i - 1, i - 1,
                       IF language \in markdownLanguages THEN "markdown"
                       ELSE IF language \in configLanguages THEN "config"
                       ELSE "text")]
     ELSE << CodeChunk(lines, filename, language, 0, Len(lines) - 1, "text") >>

\* Mutant: the readme chunk is split by token size like every other chunk.
splitEvery(chunk) == splitByTokenSize(chunk.content, chunk.metadata)

\* The callback of chunks.flatMap.
splitUnlessWholeFile(chunk) ==
  IF chunk.metadata.type = "whole-file"
  THEN <<chunk>>
  ELSE splitByTokenSize(chunk.content, chunk.metadata)

RECURSIVE flatMap(_, _)
flatMap(chunks, n) ==
  IF n = 0 THEN <<>>
  ELSE flatMap(chunks, n - 1) \o splitUnlessWholeFile(chunks[n])

\* chunkFile on a document: file name, language id and lines of its text.
chunkFile(file) ==
  LET chunks == firstChunks(file)
  IN filterNonEmpty(flatMap(chunks, Len(chunks)))

\* ------------------------------------------------------------------- state
VARIABLES
  \* VectorStore
  data,            \* this.data: the ChunkEmbedding records, in order
  disk,            \* the file at dbPath
  embedder,        \* this.embedder: "undefined" or "pipeline"
  initialized,     \* this.initialized
  \* indexWorkspace, the one run activate starts without awaiting it
  pc,              \* where the run is suspended
  fileIdx,         \* position of the for loop in files
  processedFiles,
  totalFiles,
  stat,            \* stat.size of the file the loop is at, 0 before the first stat
  runs,            \* indexWorkspace runs counted by Reindex, this one included
  cancelled,       \* token.isCancellationRequested
  chunks,          \* the argument of the addChunks call in progress
  j,               \* index of the chunk whose embedding is awaited
  \* the chat side: one search / getRelevantContext call at a time
  qpc,
  qcall,           \* [kind, query, k] of the call in progress or last made
  qrefs,           \* what search returned to getRelevantContext
  qresult,         \* how the last call ended
  qcalls,          \* calls made in this session
  \* history
  pipelineCalls,   \* pipeline(...) invocations on this store that did not fail
  pristine,        \* the records as load and addChunks produced them
  origin,          \* origin[i]: file index whose addChunks pushed data[i], 0 if loaded
  failedCalls,     \* file indices whose addChunks call rejected
  acBefore,        \* data when the addChunks call in progress began
  diskBefore,      \* disk when the addChunks call in progress began
  acWrites,        \* writes of the file made by that call
  acError,         \* "none", "pipeline" or "embedding": why that call rejected
  savedData,       \* data as it was at the last save
  savedOrigin,     \* origin as it was at the last save
  started,         \* file indices that passed the cancellation check
  searched,        \* the last completed VectorStore.search: query, k, size, refs
  qfailure,        \* "none", "pipeline" or "embedding": failure met by the last call
  \* a chunkFile call followed on its own
  document,        \* the document opened: filename, language, content (lines)
  cpc,             \* "idle", "opened" or "returned"
  firstStage,      \* chunks before token-size splitting
  emitted,         \* emitted[k]: chunks array of splitByTokenSize for
                   \* firstStage[k] before its filter, <<>> if it is not split
  returned,        \* what chunkFile returned
  \* AuthService
  globalToken,     \* globalState 'memox.authToken'
  workspaceToken,  \* workspaceState 'memox.authToken'
  storedStateParam, \* globalState 'memox.authState'
  currentState,    \* this.currentState
  credentials,     \* what the settings and the environment hold: "both",
                   \* "idOnly" or "none"
  authPending,     \* the axios calls of AuthService that have not returned
  generated,       \* state parameters generated in this session
  authOps,         \* sign-in operations started in this session
  \* ChatHistoryManager
  conversations,   \* this.conversations
  currentConversationId,
  storedHistory,   \* workspaceState 'memox.chatHistory'
  created,         \* conversation ids generated in this session
  added,           \* addMessage calls made in this session
  \* message handlers of the chat views that are suspended in an await
  panelCalls,
  sends,           \* sendMessage messages received in this session
  \* history
  validated,       \* tokens for which a call of the user API answered 200
  posted,          \* posts to the token endpoint: code, state that came with
                   \* the code, state stored at the time
  cleanSignOut,    \* signOut ran and no sign-in operation began since
  chatLog,         \* uses of a user message: where, and isAuthenticated() then
  replies          \* assistant messages stored: where the question went and
                   \* where the answer went

storeVars == <<data, disk, embedder, initialized>>
indexVars == <<pc, fileIdx, processedFiles, totalFiles, chunks, j>>
chatVars == <<qpc, qcall, qrefs, qresult, qcalls>>
addChunksHistory == <<acBefore, diskBefore, acWrites, acError>>
saveHistory == <<savedData, savedOrigin>>
chatHistory == <<searched, qfailure>>
chunkerVars == <<document, cpc, firstStage, emitted, returned>>
authVars == <<globalToken, workspaceToken, storedStateParam, currentState,
              credentials, authPending, generated, authOps>>
authHistory == <<validated, posted, cleanSignOut>>
historyVars == <<conversations, currentConversationId, storedHistory, created,
                 added>>
panelVars == <<panelCalls, sends>>
panelHistory == <<chatLog, replies>>
sessionVars == <<authVars, authHistory, historyVars, panelVars, panelHistory>>
ragVars == <<storeVars, indexVars, stat, runs, cancelled, chatVars,
             pipelineCalls, pristine, origin, failedCalls,
             addChunksHistory, saveHistory, started, chatHistory>>
vars == <<data, disk, embedder, initialized,
          pc, fileIdx, processedFiles, totalFiles, stat, runs, cancelled,
          chunks, j,
          qpc, qcall, qrefs, qresult, qcalls,
          pipelineCalls, pristine, origin, failedCalls,
          acBefore, diskBefore, acWrites, acError, savedData, savedOrigin,
          started, searched, qfailure,
          document, cpc, firstStage, emitted, returned, sessionVars>>

NoCall == [kind |-> "none", query |-> "", k |-> 0]
NoResult == [kind |-> "none"]
NoSearch == [done |-> FALSE]

\* Outcomes of the external capabilities.
Outcomes == {"ok", "error"}
PipelineError == "pipeline load failed"
EmbeddingError == "embedding failed"

NoDocument == [filename |-> "", language |-> "", content |-> <<>>]

\* No chunkFile call is followed on its own.
ChunkerIdle ==
  /\ document = NoDocument
  /\ cpc = "idle"
  /\ firstStage = <<>>
  /\ emitted = <<>>
  /\ returned = <<>>

\* undefined, as a stored value or an absent one.
Undefined == "undefined"

\* null, the current conversation id when there is none.
Null == "null"

\* No AuthService and no chat view is followed: nothing is stored, nobody
\* has signed in, no message was sent.
SessionIdle ==
  /\ globalToken = Undefined
  /\ workspaceToken = Undefined
  /\ storedStateParam = Undefined
  /\ currentState = "SignedOut"
  /\ credentials = "both"
  /\ authPending = {}
  /\ generated = 0
  /\ authOps = 0
  /\ conversations = <<>>
  /\ currentConversationId = Null
  /\ storedHistory = <<>>
  /\ created = 0
  /\ added = 0
  /\ panelCalls = {}
  /\ sends = 0
  /\ validated = {}
  /\ posted = {}
  /\ cleanSignOut = FALSE
  /\ chatLog = {}
  /\ replies = {}

\* The vector store and the indexing run stand still: the state of a
\* session without a workspace folder.
RagIdle ==
  /\ disk = NoFile
  /\ data = <<>>
  /\ embedder = "undefined"
  /\ initialized = FALSE
  /\ pc = "nofolder"
  /\ fileIdx = 1
  /\ processedFiles = 0
  /\ totalFiles = 0
  /\ stat = 0
  /\ runs = 1
  /\ cancelled = FALSE
  /\ chunks = <<>>
  /\ j = 0
  /\ qpc = "idle"
  /\ qcall = NoCall
  /\ qrefs = <<>>
  /\ qresult = NoResult
  /\ qcalls = 0
  /\ pipelineCalls = 0
  /\ pristine = <<>>
  /\ origin = <<>>
  /\ failedCalls = {}
  /\ acBefore = <<>>
  /\ diskBefore = NoFile
  /\ acWrites = 0
  /\ acError = "none"
  /\ savedData = <<>>
  /\ savedOrigin = <<>>
  /\ started = {}
  /\ searched = NoSearch
  /\ qfailure = "none"

\* The state after new RAGManager(context) and ragManager.initialize() in a
\* fresh installation: no index file yet, so load() leaves data empty.
Init ==
  /\ ChunkerIdle
  /\ SessionIdle
  /\ disk = NoFile
  /\ data = load(NoFile)
  /\ embedder = "undefined"
  /\ initialized = FALSE
  /\ pc = "activate"
  /\ fileIdx = 1
  /\ processedFiles = 0
  /\ totalFiles = 0
  /\ stat = 0
  /\ runs = 1
  /\ cancelled = FALSE
  /\ chunks = <<>>
  /\ j = 0
  /\ qpc = "idle"
  /\ qcall = NoCall
  /\ qrefs = <<>>
  /\ qresult = NoResult
  /\ qcalls = 0
  /\ pipelineCalls = 0
  /\ pristine = <<>>
  /\ origin = <<>>
  /\ failedCalls = {}
  /\ acBefore = <<>>
  /\ diskBefore = NoFile
  /\ acWrites = 0
  /\ acError = "none"
  /\ savedData = <<>>
  /\ savedOrigin = <<>>
  /\ started = {}
  /\ searched = NoSearch
  /\ qfailure = "none"

\* ---------------------------------------------------------- indexWorkspace
Running == pc \notin {"activate", "nofolder", "complete", "cancelled", "rejected"}

\* Mutant: the loop never looks at the token.
tokenIgnored == FALSE

\* token.isCancellationRequested, read at the head of the per-file loop.
isCancellationRequested == cancelled

\* Mutant: this.save() inside the loop, after every push.
saveInsideLoop(store, file, loopDone) == save(store)

\* this.save() follows the for loop of addChunks: the file is written in the
\* turn that ends the loop and in no other.
saveAfterLoop(store, file, loopDone) == IF loopDone THEN save(store) ELSE file

\* Sizes vscode.workspace.fs.stat can report, on both sides of the limit.
FileSizes == {1024 * 1024, 1024 * 1024 + 1}

\* Mutant: a file of exactly 1 MiB is skipped too.
tooLargeFromLimit(size) == size >= 1024 * 1024

\* stat.size > 1024 * 1024: the file is skipped.
tooLarge(size) == size > 1024 * 1024

\* Mutant: the record is put in front of the stored ones (unshift).
pushFront(store, record) == <<record>> \o store

\* Mutant: a chunk the store already holds is not stored again.
pushUnlessStored(store, record) ==
  IF \E i \in 1..Len(store) : store[i].chunk = record.chunk
    THEN store
    ELSE Append(store, record)

\* this.data.push({ chunk, embedding }).
push(store, record) == Append(store, record)

\* activate calls ragManager.indexWorkspace(): without workspace folders it
\* returns at once, else it counts the files and enters the loop.
indexWorkspace ==
  /\ pc = "activate"
  /\ \E folders \in BOOLEAN :
       IF folders
       THEN /\ pc' = "check"
            /\ totalFiles' = Len(WorkspaceFiles)
       ELSE /\ pc' = "nofolder"
            /\ totalFiles' = totalFiles
  /\ fileIdx' = 1
  /\ processedFiles' = 0
  /\ UNCHANGED <<storeVars, cancelled, chunks, j, chatVars,
                 pipelineCalls, pristine, origin, failedCalls,
                 addChunksHistory, saveHistory, started, chatHistory>>
  /\ UNCHANGED <<stat, runs>>
  /\ UNCHANGED <<chunkerVars, sessionVars>>

\* The host sets the token of the progress callback.
Cancel ==
  /\ Running
  /\ ~cancelled
  /\ cancelled' = TRUE
  /\ UNCHANGED <<storeVars, indexVars, chatVars,
                 pipelineCalls, pristine, origin, failedCalls,
                 addChunksHistory, saveHistory, started, chatHistory>>
  /\ UNCHANGED <<stat, runs>>
  /\ UNCHANGED <<chunkerVars, sessionVars>>

\* Head of "for (const file of files)": leave the loop after the last file,
\* return when cancellation was requested, else start the file with stat.
CheckCancellation ==
  /\ pc = "check"
  /\ IF fileIdx > Len(WorkspaceFiles)
     THEN /\ pc' = "complete"
          /\ started' = started
     ELSE IF isCancellationRequested
          THEN /\ pc' = "cancelled"
               /\ started' = started
          ELSE /\ pc' = "stat"
               /\ started' = started \cup {fileIdx}
  /\ UNCHANGED <<storeVars, fileIdx, processedFiles, totalFiles, cancelled,
                 chunks, j, chatVars,
                 pipelineCalls, pristine, origin, failedCalls,
                 addChunksHistory, saveHistory, chatHistory>>
  /\ UNCHANGED <<stat, runs>>
  /\ UNCHANGED <<chunkerVars, sessionVars>>

\* await vscode.workspace.fs.stat(file), outside the try block: a file over
\* 1 MiB is counted and skipped; a stat failure leaves the loop and rejects
\* the promise indexWorkspace returned.
StatFile ==
  /\ pc = "stat"
  /\ \/ \E size \in FileSizes :
          /\ stat' = size
          /\ IF tooLarge(size)
               THEN /\ pc' = "check"
                    /\ processedFiles' = processedFiles + 1
                    /\ fileIdx' = fileIdx + 1
               ELSE /\ pc' = "open"
                    /\ UNCHANGED <<processedFiles, fileIdx>>
     \/ /\ pc' = "rejected"
        /\ UNCHANGED <<processedFiles, fileIdx, stat>>
  /\ UNCHANGED <<storeVars, totalFiles, runs, cancelled, chunks, j, chatVars,
                 pipelineCalls, pristine, origin, failedCalls,
                 addChunksHistory, saveHistory, started, chatHistory>>
  /\ UNCHANGED <<chunkerVars, sessionVars>>

\* Inside the try block: openTextDocument, the progress loop and chunkFile.
\* Either may throw, which the catch of the file handles.
OpenAndChunk ==
  /\ pc = "open"
  /\ \E outcome \in Outcomes :
       IF outcome = "ok"
       THEN /\ pc' = "chunked"
            /\ chunks' = WorkspaceFiles[fileIdx].chunks
       ELSE /\ pc' = "file_rejected"
            /\ chunks' = chunks
  /\ UNCHANGED <<storeVars, fileIdx, processedFiles, totalFiles, cancelled, j,
                 chatVars,
                 pipelineCalls, pristine, origin, failedCalls,
                 addChunksHistory, saveHistory, started, chatHistory>>
  /\ UNCHANGED <<stat, runs>>
  /\ UNCHANGED <<chunkerVars, sessionVars>>

\* addChunks(chunks) is called and runs initialize() up to its await: the
\* pipeline is requested when this.initialized is false.
addChunks ==
  /\ pc = "chunked"
  /\ IF ~initialized
     THEN /\ pc' = "ac_pipeline"
          /\ pipelineCalls' = pipelineCalls + 1
     ELSE /\ pc' = "ac_initialized"
          /\ pipelineCalls' = pipelineCalls
  /\ acBefore' = data
  /\ diskBefore' = disk
  /\ acWrites' = 0
  /\ acError' = "none"
  /\ UNCHANGED <<storeVars, fileIdx, processedFiles, totalFiles, cancelled,
                 chunks, j, chatVars,
                 pristine, origin, failedCalls,
                 saveHistory, started, chatHistory>>
  /\ UNCHANGED <<stat, runs>>
  /\ UNCHANGED <<chunkerVars, sessionVars>>

\* The pipeline awaited by addChunks' initialize() settles.
addChunksInitialize ==
  /\ pc = "ac_pipeline"
  /\ \E outcome \in Outcomes :
       IF outcome = "ok"
       THEN /\ embedder' = "pipeline"
            /\ initialized' = TRUE
            /\ pc' = "ac_initialized"
            /\ UNCHANGED <<acError, failedCalls, pipelineCalls>>
       ELSE /\ pc' = "file_rejected"
            /\ acError' = "pipeline"
            /\ failedCalls' = failedCalls \cup {fileIdx}
            /\ pipelineCalls' = pipelineCalls - 1
            /\ UNCHANGED <<embedder, initialized>>
  /\ UNCHANGED <<data, disk, fileIdx, processedFiles, totalFiles, cancelled,
                 chunks, j, chatVars,
                 pristine, origin,
                 acBefore, diskBefore, acWrites, saveHistory, started,
                 chatHistory>>
  /\ UNCHANGED <<stat, runs>>
  /\ UNCHANGED <<chunkerVars, sessionVars>>

\* After "await this.initialize()": the loop asks for the first embedding;
\* with no chunk the loop is over and save() runs at once.
addChunksLoop ==
  /\ pc = "ac_initialized"
  /\ IF Len(chunks) = 0
     THEN /\ disk' = saveAfterLoop(data, disk, TRUE)
          /\ acWrites' = acWrites + 1
          /\ savedData' = data
          /\ savedOrigin' = origin
          /\ pc' = "ac_resolved"
          /\ j' = j
     ELSE /\ pc' = "ac_embedding"
          /\ j' = 1
          /\ UNCHANGED <<disk, acWrites, savedData, savedOrigin>>
  /\ UNCHANGED <<data, embedder, initialized, fileIdx, processedFiles,
                 totalFiles, cancelled, chunks, chatVars,
                 pipelineCalls, pristine, origin, failedCalls,
                 acBefore, diskBefore, acError, started, chatHistory>>
  /\ UNCHANGED <<stat, runs>>
  /\ UNCHANGED <<chunkerVars, sessionVars>>

\* The embedding of chunk j settles.  On success the record is pushed and
\* either the next embedding is requested or, after the last chunk, save()
\* runs in the same turn.  On failure addChunks rejects.
addChunksEmbed ==
  /\ pc = "ac_embedding"
  /\ \E outcome \in Outcomes :
       IF outcome = "ok"
       THEN LET record == [chunk |-> chunks[j],
                           embedding |-> getEmbedding(chunks[j].content)]
                loopDone == j = Len(chunks)
                pushed == Len(push(data, record)) > Len(data)
                wrote == saveAfterLoop(push(data, record), NoFile, loopDone).exists
            IN /\ data' = push(data, record)
               /\ pristine' = IF pushed THEN Append(pristine, record) ELSE pristine
               /\ origin' = IF pushed THEN Append(origin, fileIdx) ELSE origin
               /\ disk' = saveAfterLoop(data', disk, loopDone)
               /\ acWrites' = IF wrote THEN acWrites + 1 ELSE acWrites
               /\ savedData' = IF wrote THEN data' ELSE savedData
               /\ savedOrigin' = IF wrote THEN origin' ELSE savedOrigin
               /\ pc' = IF loopDone THEN "ac_resolved" ELSE "ac_embedding"
               /\ j' = IF loopDone THEN j ELSE j + 1
               /\ UNCHANGED <<acError, failedCalls>>
       ELSE /\ pc' = "file_rejected"
            /\ acError' = "embedding"
            /\ failedCalls' = failedCalls \cup {fileIdx}
            /\ UNCHANGED <<data, pristine, origin, disk, acWrites, savedData,
                           savedOrigin, j>>
  /\ UNCHANGED <<embedder, initialized, fileIdx, processedFiles, totalFiles,
                 cancelled, chunks, chatVars,
                 pipelineCalls, acBefore, diskBefore, started, chatHistory>>
  /\ UNCHANGED <<stat, runs>>
  /\ UNCHANGED <<chunkerVars, sessionVars>>

\* The inner withProgress resolved: the file is counted.
FileIndexed ==
  /\ pc = "ac_resolved"
  /\ processedFiles' = processedFiles + 1
  /\ fileIdx' = fileIdx + 1
  /\ pc' = "check"
  /\ UNCHANGED <<storeVars, totalFiles, cancelled, chunks, j, chatVars,
                 pipelineCalls, pristine, origin, failedCalls,
                 addChunksHistory, saveHistory, started, chatHistory>>
  /\ UNCHANGED <<stat, runs>>
  /\ UNCHANGED <<chunkerVars, sessionVars>>

\* catch (error): the file is logged, counted, and the loop goes on.
CatchFileError ==
  /\ pc = "file_rejected"
  /\ processedFiles' = processedFiles + 1
  /\ fileIdx' = fileIdx + 1
  /\ pc' = "check"
  /\ UNCHANGED <<storeVars, totalFiles, cancelled, chunks, j, chatVars,
                 pipelineCalls, pristine, origin, failedCalls,
                 addChunksHistory, saveHistory, started, chatHistory>>
  /\ UNCHANGED <<stat, runs>>
  /\ UNCHANGED <<chunkerVars, sessionVars>>

\* ------------------------------------------------------------ the chat side
\* Mutant: getRelevantContext without its try / catch.
getRelevantContextRethrow(detail) == [kind |-> "threw", error |-> detail]

\* catch (error) of getRelevantContext: the error becomes the returned text.
getRelevantContextCatch(detail) ==
  [kind |-> "string", text |-> "Error retrieving code context: " \o detail]

\* How a call ends when initialize() or the embedder throws: search rejects,
\* getRelevantContext catches.
callFailure(kind, detail) ==
  IF kind = "context" THEN getRelevantContextCatch(detail)
  ELSE [kind |-> "threw", error |-> detail]

\* A message handler calls getRelevantContext(query), or a holder of the
\* exported ragManager calls search(query, k); either reaches
\* VectorStore.search, which runs initialize() up to its await.
QueryCall ==
  /\ qpc = "idle"
  /\ pc # "activate"
  /\ qcalls < MaxQueryCalls
  /\ \E query \in Queries, kind \in {"search", "context"}, k \in 0..MaxK :
       /\ kind = "context" => k = 0
       /\ qcall' = [kind |-> kind, query |-> query,
                    k |-> IF kind = "context" THEN TopK ELSE k]
  /\ qcalls' = qcalls + 1
  /\ IF ~initialized
     THEN /\ qpc' = "q_pipeline"
          /\ pipelineCalls' = pipelineCalls + 1
     ELSE /\ qpc' = "q_embedding"
          /\ pipelineCalls' = pipelineCalls
  /\ qrefs' = <<>>
  /\ qresult' = NoResult
  /\ searched' = NoSearch
  /\ qfailure' = "none"
  /\ UNCHANGED <<storeVars, indexVars, cancelled,
                 pristine, origin, failedCalls,
                 addChunksHistory, saveHistory, started>>
  /\ UNCHANGED <<stat, runs>>
  /\ UNCHANGED <<chunkerVars, sessionVars>>

\* The pipeline awaited by search's initialize() settles; on success search
\* goes on to request the query embedding.
searchInitialize ==
  /\ qpc = "q_pipeline"
  /\ \E outcome \in Outcomes :
       IF outcome = "ok"
       THEN /\ embedder' = "pipeline"
            /\ initialized' = TRUE
            /\ qpc' = "q_embedding"
            /\ UNCHANGED <<qresult, qfailure, pipelineCalls>>
       ELSE /\ qpc' = "idle"
            /\ qresult' = callFailure(qcall.kind, PipelineError)
            /\ qfailure' = "pipeline"
            /\ pipelineCalls' = pipelineCalls - 1
            /\ UNCHANGED <<embedder, initialized>>
  /\ UNCHANGED <<data, disk, indexVars, cancelled, qcall, qrefs, qcalls,
                 pristine, origin, failedCalls,
                 addChunksHistory, saveHistory, started, searched>>
  /\ UNCHANGED <<stat, runs>>
  /\ UNCHANGED <<chunkerVars, sessionVars>>

\* The query embedding settles and search scores, sorts and slices this.data
\* in one turn.  A direct search call ends here.
search ==
  /\ qpc = "q_embedding"
  /\ \E outcome \in Outcomes :
       IF outcome = "ok"
       THEN LET refs == searchRanking(data, getEmbedding(qcall.query), qcall.k)
            IN /\ searched' = [done |-> TRUE, query |-> qcall.query,
                               k |-> qcall.k, size |-> Len(data), refs |-> refs]
               /\ qrefs' = refs
               /\ IF qcall.kind = "context"
                  THEN /\ qpc' = "q_searched"
                       /\ qresult' = qresult
                  ELSE /\ qpc' = "idle"
                       /\ qresult' = [kind |-> "chunks", refs |-> refs]
               /\ qfailure' = qfailure
       ELSE /\ qpc' = "idle"
            /\ qresult' = callFailure(qcall.kind, EmbeddingError)
            /\ qfailure' = "embedding"
            /\ UNCHANGED <<qrefs, searched>>
  /\ UNCHANGED <<storeVars, indexVars, cancelled, qcall, qcalls,
                 pipelineCalls, pristine, origin, failedCalls,
                 addChunksHistory, saveHistory, started>>
  /\ UNCHANGED <<stat, runs>>
  /\ UNCHANGED <<chunkerVars, sessionVars>>

\* getRelevantContext resumes with the chunks search returned and builds the
\* context string; merging writes metadata.endLine of chunks it was handed.
getRelevantContext ==
  /\ qpc = "q_searched"
  /\ LET out == assembleContext(qrefs, data, qcall.query, DefaultMaxTokens)
     IN /\ data' = out.store
        /\ qresult' = out.result
  /\ qpc' = "idle"
  /\ UNCHANGED <<disk, embedder, initialized, indexVars, cancelled,
                 qcall, qrefs, qcalls,
                 pipelineCalls, pristine, origin, failedCalls,
                 addChunksHistory, saveHistory, started, chatHistory>>
  /\ UNCHANGED <<stat, runs>>
  /\ UNCHANGED <<chunkerVars, sessionVars>>

\* ------------------------------------------------------------ a new session
\* The extension host is started again on the same storage path: a new
\* RAGManager constructs a new VectorStore, whose constructor calls load().
NewSession ==
  /\ ~Running
  /\ pc # "activate"
  /\ qpc = "idle"
  /\ data' = load(disk)
  /\ pristine' = load(disk)
  /\ origin' = [i \in 1..Len(load(disk)) |-> 0]
  /\ embedder' = "undefined"
  /\ initialized' = FALSE
  /\ pc' = "activate"
  /\ fileIdx' = 1
  /\ processedFiles' = 0
  /\ totalFiles' = 0
  /\ stat' = 0
  /\ cancelled' = FALSE
  /\ chunks' = <<>>
  /\ j' = 0
  /\ qcall' = NoCall
  /\ qrefs' = <<>>
  /\ qresult' = NoResult
  /\ qcalls' = 0
  /\ pipelineCalls' = 0
  /\ failedCalls' = {}
  /\ acBefore' = <<>>
  /\ diskBefore' = disk
  /\ acWrites' = 0
  /\ acError' = "none"
  /\ savedOrigin' = [i \in 1..Len(savedOrigin) |-> 0]
  /\ started' = {}
  /\ searched' = NoSearch
  /\ qfailure' = "none"
  /\ UNCHANGED <<disk, qpc, savedData>>
  /\ UNCHANGED <<chunkerVars, sessionVars>>

\* A new session, as long as the index file is short.
Restart ==
  /\ Len(disk.text) <= MaxReload
  /\ NewSession
  /\ UNCHANGED runs

Next ==
  \/ indexWorkspace
  \/ Cancel
  \/ CheckCancellation
  \/ StatFile
  \/ OpenAndChunk
  \/ addChunks
  \/ addChunksInitialize
  \/ addChunksLoop
  \/ addChunksEmbed
  \/ FileIndexed
  \/ CatchFileError
  \/ QueryCall
  \/ searchInitialize
  \/ search
  \/ getRelevantContext
  \/ Restart

Spec == Init /\ [][Next]_vars

\* --------------------------------------------------------------- re-indexing
\* The extension is activated again on the same storage path and workspace,
\* whatever the index file holds: indexWorkspace runs once more over the
\* records the constructor loaded.
Reindex ==
  /\ runs < MaxRuns
  /\ NewSession
  /\ runs' = runs + 1

\* Indexing runs one after the other, with no chat request in between.
NextReindex ==
  \/ indexWorkspace
  \/ Cancel
  \/ CheckCancellation
  \/ StatFile
  \/ OpenAndChunk
  \/ addChunks
  \/ addChunksInitialize
  \/ addChunksLoop
  \/ addChunksEmbed
  \/ FileIndexed
  \/ CatchFileError
  \/ Reindex

SpecReindex == Init /\ [][NextReindex]_vars

\* --------------------------------------------- getRelevantContext on its own
\* The queries handed to getRelevantContext: none names a file, two name
\* a.ts in different letter case, one names a file no chunk comes from.
ContextQueries ==
  {"", "explain in file a.ts", "the path of A.ts", "what is in lib.rs"}

\* Chunks of mixed files: of a.ts adjacent, near (gap 3), far (gap 4) and
\* nested line ranges, one of them too large for any budget; of b.md two
\* lines four apart; one chunk of data.ts, whose name contains a.ts, and one
\* of a file named 7.
MixedChunks ==
  << CodeChunk("c1", "a.ts", "typescript", 0, 5, "function"),
     CodeChunk("c2", "a.ts", "typescript", 6, 10, "block"),
     CodeChunk("c2", "a.ts", "typescript", 13, 20, "block"),
     CodeChunk("k40000", "a.ts", "typescript", 24, 30, "class"),
     CodeChunk("c1", "a.ts", "typescript", 2, 30, "block"),
     CodeChunk("c3", "b.md", "markdown", 0, 0, "markdown"),
     CodeChunk("c3", "b.md", "markdown", 4, 4, "markdown"),
     CodeChunk("c2", "data.ts", "typescript", 0, 5, "function"),
     CodeChunk("c3", "7", "plaintext", 0, 2, "text") >>

StoredRecord(chunk) == [chunk |-> chunk, embedding |-> getEmbedding(chunk.content)]

\* Up to MaxRetrieved different chunks of MixedChunks, in any rank order.
MixedInputs ==
  { [i \in 1..Len(pick) |-> StoredRecord(MixedChunks[pick[i]])] :
      pick \in { q \in UNION { [1..n -> 1..Len(MixedChunks)] : n \in 0..MaxRetrieved } :
                   \A a, b \in 1..Len(q) : a # b => q[a] # q[b] } }

\* One large chunk from each of up to MaxFiles files: at five files or more a
\* chunk of 7000 or 7500 characters fits the share of its file and one of
\* 8000 does not.
LargeContents == {"k7000", "k7500", "k8000"}

LargeInputs ==
  { [i \in 1..Len(pick) |->
       StoredRecord(CodeChunk(pick[i], "f" \o ToString(i) \o ".ts", "typescript",
                              0, 5, "block"))] :
      pick \in UNION { [1..n -> LargeContents] : n \in 1..MaxFiles } }

\* A session that found the index file written by earlier sessions and has
\* no workspace folder to index; search has just returned every record, in
\* the order of the store, to getRelevantContext.
InitContext ==
  /\ ChunkerIdle
  /\ SessionIdle
  /\ data \in MixedInputs \cup LargeInputs
  /\ disk = save(data)
  /\ pristine = data
  /\ origin = [i \in 1..Len(data) |-> 0]
  /\ embedder = "pipeline"
  /\ initialized = TRUE
  /\ pc = "nofolder"
  /\ fileIdx = 1
  /\ processedFiles = 0
  /\ totalFiles = 0
  /\ stat = 0
  /\ runs = 1
  /\ cancelled = FALSE
  /\ chunks = <<>>
  /\ j = 0
  /\ qpc = "q_searched"
  /\ \E query \in ContextQueries :
       /\ qcall = [kind |-> "context", query |-> query, k |-> TopK]
       /\ searched = [done |-> TRUE, query |-> query, k |-> TopK,
                      size |-> Len(data), refs |-> [i \in 1..Len(data) |-> i]]
  /\ qrefs = [i \in 1..Len(data) |-> i]
  /\ qresult = NoResult
  /\ qcalls = 1
  /\ pipelineCalls = 1
  /\ failedCalls = {}
  /\ acBefore = <<>>
  /\ diskBefore = disk
  /\ acWrites = 0
  /\ acError = "none"
  /\ savedData = data
  /\ savedOrigin = origin
  /\ started = {}
  /\ qfailure = "none"

NextContext == getRelevantContext

SpecContext == InitContext /\ [][NextContext]_vars

\* ----------------------------------------------------- chunkFile on its own
\* Lines by token count: empty, white space, two that fit the budget of 512
\* together with little else, one that exceeds it alone.
TextLines ==
  {Line("", 0), Line("  ", 1), Line("short", 200), Line("medium", 300),
   Line("long", 600)}

\* Lines of code: declarations that open, close on the same line or are
\* indented, a closing brace, a function that is no declaration, a costly
\* statement, an empty line.
CodeLines ==
  {Line("function f() {", 5), Line("function g() {}", 5), Line("  class A {", 4),
   Line("}", 1), Line("export function h() {", 6), Line("  return table;", 300),
   Line("", 0)}

SeqsUpTo(S, n) == UNION { [1..m -> S] : m \in 1..n }

Repeat(line, n) == [i \in 1..n |-> line]

\* Documents that begin with a run of 50 or more lines of 10 tokens each,
\* text or white space, after an optional first line, and end with up to two
\* free lines.
LongContents ==
  { head \o Repeat(line, n) \o tail :
      head \in {<<>>, <<Line("head", 10)>>},
      line \in {Line("y = 1", 10), Line("  ", 10)},
      n \in (MaxRun - 3)..MaxRun,
      tail \in {<<>>} \cup SeqsUpTo(TextLines, 2) }

\* A TypeScript text of 20 lines: three lines of imports, function foo on
\* lines 3 to 10, one line between, class Bar on lines 12 to 19, each closed
\* by a brace on a line of its own.
SemanticExample(cls, gap) ==
  <<Line("import a", 3), Line("import b", 3), Line("", 0),
    Line("function foo() {", 5)>>
  \o Repeat(Line("  n = n + 1;", 6), 6) \o <<Line("}", 1), gap, cls>>
  \o Repeat(Line("  n = n + 1;", 6), 6) \o <<Line("}", 1)>>

\* The class written at the margin or indented, after an empty line or a
\* comment.
SemanticExamples ==
  { SemanticExample(cls, gap) :
      cls \in {Line("class Bar {", 4), Line("  class Bar {", 4)},
      gap \in {Line("", 0), Line("// Bar", 3)} }

\* File names with the language VS Code gives the document.
TextFiles ==
  { <<"notes.txt", "plaintext">>, <<"guide.md", "markdown">>,
    <<"README.md", "markdown">>, <<"ReadMe.MD", "markdown">>,
    <<"readme.md", "plaintext">>, <<"notes.xyz", "xyz">> }

Document(name, content) ==
  [filename |-> name[1], language |-> name[2], content |-> content]

\* document.getText().split('\n') has at least one line.
DocumentInputs ==
  { Document(name, content) :
      name \in TextFiles, content \in SeqsUpTo(TextLines, MaxLines) }
  \cup { Document(<<"a.ts", "typescript">>, content) :
           content \in SeqsUpTo(CodeLines, MaxLines) }
  \cup { Document(name, content) :
           name \in { <<"notes.txt", "plaintext">>, <<"README.md", "markdown">> },
           content \in LongContents }
  \cup { Document(<<"example.ts", "typescript">>, content) :
           content \in SemanticExamples }

\* openTextDocument has resolved inside chunkFile.
InitChunker ==
  /\ SessionIdle
  /\ document \in DocumentInputs
  /\ cpc = "opened"
  /\ firstStage = <<>>
  /\ emitted = <<>>
  /\ returned = <<>>
  /\ disk = NoFile
  /\ data = <<>>
  /\ embedder = "undefined"
  /\ initialized = FALSE
  /\ pc = "open"
  /\ fileIdx = 1
  /\ processedFiles = 0
  /\ totalFiles = 1
  /\ stat = 1024
  /\ runs = 1
  /\ cancelled = FALSE
  /\ chunks = <<>>
  /\ j = 0
  /\ qpc = "idle"
  /\ qcall = NoCall
  /\ qrefs = <<>>
  /\ qresult = NoResult
  /\ qcalls = 0
  /\ pipelineCalls = 0
  /\ pristine = <<>>
  /\ origin = <<>>
  /\ failedCalls = {}
  /\ acBefore = <<>>
  /\ diskBefore = NoFile
  /\ acWrites = 0
  /\ acError = "none"
  /\ savedData = <<>>
  /\ savedOrigin = <<>>
  /\ started = {1}
  /\ searched = NoSearch
  /\ qfailure = "none"

\* The synchronous rest of chunkFile.
CallChunkFile ==
  /\ cpc = "opened"
  /\ firstStage' = firstChunks(document)
  /\ emitted' = [k \in 1..Len(firstStage') |->
                   IF firstStage'[k].metadata.type = "whole-file" THEN <<>>
                   ELSE splitEmitted(firstStage'[k].content, firstStage'[k].metadata)]
  /\ returned' = chunkFile(document)
  /\ cpc' = "returned"
  /\ UNCHANGED <<document, storeVars, indexVars, stat, runs, cancelled, chatVars,
                 pipelineCalls, pristine, origin, failedCalls,
                 addChunksHistory, saveHistory, started, chatHistory,
                 sessionVars>>

NextChunker == CallChunkFile

SpecChunker == InitChunker /\ [][NextChunker]_vars

\* ------------------------------------------------------------- AuthService
\* A value that counts as true in a condition: neither undefined (null) nor
\* the empty string.
Truthy(value) == value \notin {Undefined, ""}

\* What GitHub knows: the token its token endpoint issues for a good code,
\* personal access tokens a user can enter, the tokens its user API accepts.
IssuedToken == "gho_issued"
DirectTokens == {"ghp_valid", "ghp_revoked"}
ValidTokens == {IssuedToken, "ghp_valid"}

\* Authorization codes: one GitHub issued and has not seen yet, and the one
\* AuthWebview.testUriHandler makes up.
Codes == {"code_ok", "test_code"}

\* crypto.randomBytes(16).toString('hex'): a value not generated before.
StateParam(n) == "state" \o ToString(n)

\* axios.get('https://api.github.com/user') with the token: status 200, or
\* it throws (401 for a token GitHub does not accept, or no network).
UserApiOutcomes(token) ==
  IF token \in ValidTokens THEN {"200", "throws"} ELSE {"throws"}

\* axios.post(access_token url) with the code: data.access_token, data.error,
\* neither, or it throws.
TokenEndpointOutcomes(code) ==
  IF code = "code_ok" THEN {"access_token", "throws"}
  ELSE {"error", "none", "throws"}

\* getAuthToken(): globalToken || workspaceToken
getAuthToken == IF Truthy(globalToken) THEN globalToken ELSE workspaceToken

\* isAuthenticated(): token !== undefined && token !== ''
isAuthenticated == getAuthToken # Undefined /\ getAuthToken # ""

\* setAuthToken(token)
setAuthToken(token) ==
  /\ globalToken' = token
  /\ workspaceToken' = token

\* generateStateParam()
generateStateParam ==
  /\ generated' = generated + 1
  /\ storedStateParam' = StateParam(generated + 1)

\* A sign-in operation begins.
SignInBegins ==
  /\ authOps < MaxAuthOps
  /\ authOps' = authOps + 1
  /\ cleanSignOut' = FALSE

\* The states a callback URI can carry: any generated in this session, the
\* one an earlier session left, one made up by somebody else, or none.
CallbackStates == {StateParam(n) : n \in 0..generated} \cup {"forged", ""}

\* exchangeGitHubCodeForToken(code, state, skipStateValidation) up to its
\* await of axios.post; came is the state that arrived with the code and
\* storedState what getStoredStateParam() answers.
exchangeGitHubCodeForToken(code, state, skipStateValidation, came, storedState) ==
  IF ~skipStateValidation /\ (~Truthy(storedState) \/ storedState # state)
  THEN /\ currentState' = "Error"
       /\ UNCHANGED <<authPending, posted>>
  ELSE IF credentials # "both"
  THEN /\ currentState' = "Error"
       /\ UNCHANGED <<authPending, posted>>
  ELSE /\ currentState' = "SigningIn"
       /\ authPending' = authPending \cup
            {[id |-> authOps + 1, op |-> "exchange", arg |-> code]}
       /\ posted' = posted \cup
            {[code |-> code, came |-> came, stored |-> storedState]}

\* What the rest of the program does during a step of AuthService.
AuthOnly == UNCHANGED <<ragVars, chunkerVars, historyVars, panelVars, panelHistory>>

\* AuthWebview.openGitHubAuthInBrowser, on 'signInWithGitHub'.
openGitHubAuthInBrowser ==
  /\ SignInBegins
  /\ IF credentials = "none"
     THEN UNCHANGED <<storedStateParam, generated>>
     ELSE generateStateParam
  /\ UNCHANGED <<globalToken, workspaceToken, currentState, credentials,
                 authPending, validated, posted>>
  /\ AuthOnly

\* AuthWebview.testUriHandler: the URI it opens comes back through handleUri.
testUriHandler ==
  /\ SignInBegins
  /\ generateStateParam
  /\ UNCHANGED <<globalToken, workspaceToken, currentState, credentials,
                 authPending, validated, posted>>
  /\ AuthOnly

\* The URI handler, for vscode://memox/callback with a query.
handleUri ==
  /\ SignInBegins
  /\ \E code \in Codes \cup {""}, state \in CallbackStates :
       IF Truthy(code) /\ Truthy(state)
       THEN exchangeGitHubCodeForToken(code, state, FALSE, state, storedStateParam)
       ELSE UNCHANGED <<currentState, authPending, posted>>
  /\ UNCHANGED <<globalToken, workspaceToken, storedStateParam, credentials,
                 generated, validated>>
  /\ AuthOnly

\* Command memox.manualAuthentication once the input box returned a code.
manualAuthentication ==
  /\ SignInBegins
  /\ \E code \in Codes :
       LET state == IF Truthy(storedStateParam) THEN storedStateParam ELSE ""
       IN exchangeGitHubCodeForToken(code, state, FALSE, "", storedStateParam)
  /\ UNCHANGED <<globalToken, workspaceToken, storedStateParam, credentials,
                 generated, validated>>
  /\ AuthOnly

\* exchangeManualCode(code), called by command memox.manualAuth and by
\* AuthWebview.promptForAuthCode once the input box returned a code.
exchangeManualCode ==
  /\ SignInBegins
  /\ generateStateParam
  /\ \E code \in Codes :
       exchangeGitHubCodeForToken(code, storedStateParam', TRUE, "", storedStateParam')
  /\ UNCHANGED <<globalToken, workspaceToken, credentials, validated>>
  /\ AuthOnly

\* The post to the token endpoint returns to exchangeGitHubCodeForToken.
exchangeReturns ==
  /\ \E call \in authPending :
       /\ call.op = "exchange"
       /\ authPending' = authPending \ {call}
       /\ \E outcome \in TokenEndpointOutcomes(call.arg) :
            IF outcome = "access_token"
            THEN /\ setAuthToken(IssuedToken)
                 /\ currentState' = "SignedIn"
            ELSE /\ currentState' = "Error"
                 /\ UNCHANGED <<globalToken, workspaceToken>>
  /\ UNCHANGED <<storedStateParam, credentials, generated, authOps,
                 validated, posted, cleanSignOut>>
  /\ AuthOnly

\* setDirectToken(token) up to its await, called by
\* AuthWebview.promptForDirectToken once the input box returned a token.
setDirectToken ==
  /\ SignInBegins
  /\ \E token \in DirectTokens :
       authPending' = authPending \cup
         {[id |-> authOps + 1, op |-> "setDirectToken", arg |-> token]}
  /\ currentState' = "SigningIn"
  /\ UNCHANGED <<globalToken, workspaceToken, storedStateParam, credentials,
                 generated, validated, posted>>
  /\ AuthOnly

\* The call of the user API returns to setDirectToken.
setDirectTokenReturns ==
  /\ \E call \in authPending :
       /\ call.op = "setDirectToken"
       /\ authPending' = authPending \ {call}
       /\ \E outcome \in UserApiOutcomes(call.arg) :
            IF outcome = "200"
            THEN /\ setAuthToken(call.arg)
                 /\ currentState' = "SignedIn"
                 /\ validated' = validated \cup {call.arg}
            ELSE /\ currentState' = "Error"
                 /\ UNCHANGED <<globalToken, workspaceToken, validated>>
  /\ UNCHANGED <<storedStateParam, credentials, generated, authOps,
                 posted, cleanSignOut>>
  /\ AuthOnly

\* The validateToken call of the constructor resolves.
validateTokenReturns ==
  /\ \E call \in authPending :
       /\ call.op = "validateToken"
       /\ authPending' = authPending \ {call}
       /\ \E outcome \in UserApiOutcomes(call.arg) :
            IF outcome = "200"
            THEN /\ currentState' = "SignedIn"
                 /\ validated' = validated \cup {call.arg}
                 /\ UNCHANGED <<globalToken, workspaceToken>>
            ELSE /\ setAuthToken("")
                 /\ currentState' = "SignedOut"
                 /\ UNCHANGED validated
  /\ UNCHANGED <<storedStateParam, credentials, generated, authOps,
                 posted, cleanSignOut>>
  /\ AuthOnly

\* signOut(), on command memox.signOut.
signOut ==
  /\ globalToken' = Undefined
  /\ workspaceToken' = Undefined
  /\ storedStateParam' = Undefined
  /\ currentState' = "SignedOut"
  /\ cleanSignOut' = TRUE
  /\ UNCHANGED <<credentials, authPending, generated, authOps, validated, posted>>
  /\ AuthOnly

\* Tokens and state parameter an earlier session can have left.
StoredTokens == {Undefined, "", "ghp_valid", "ghp_revoked"}
StoredStateParams == {Undefined, StateParam(0)}

\* The state after AuthService.getInstance(context) in activate: a stored
\* token is being validated, and the state is SignedOut until that returns.
InitAuth ==
  /\ globalToken \in StoredTokens
  /\ workspaceToken \in {Undefined, "ghp_valid"}
  /\ storedStateParam \in StoredStateParams
  /\ credentials \in {"both", "idOnly", "none"}
  /\ currentState = "SignedOut"
  /\ authPending =
       IF Truthy(getAuthToken)
       THEN {[id |-> 0, op |-> "validateToken", arg |-> getAuthToken]}
       ELSE {}
  /\ generated = 0
  /\ authOps = 0
  /\ validated = {}
  /\ posted = {}
  /\ cleanSignOut = FALSE

\* ------------------------------------------------------ ChatHistoryManager
\* ChatHistoryManager.MAX_HISTORY
MAX_HISTORY == 6

\* message.split(/\s+/): the pieces between runs of white space, an empty
\* piece before a leading run and after a trailing one.
RECURSIVE splitWords(_, _, _, _, _)
splitWords(text, i, word, words, inRun) ==
  IF i > Len(text) THEN Append(words, word)
  ELSE IF SubSeq(text, i, i) \in {" ", "\t"}
  THEN IF inRun THEN splitWords(text, i + 1, word, words, TRUE)
       ELSE splitWords(text, i + 1, "", Append(words, word), TRUE)
  ELSE splitWords(text, i + 1, word \o SubSeq(text, i, i), words, FALSE)

\* words.join(' ')
RECURSIVE join(_)
join(words) ==
  IF words = <<>> THEN ""
  ELSE IF Len(words) = 1 THEN words[1]
  ELSE words[1] \o " " \o join(Tail(words))

\* text.trim()
RECURSIVE trim(_)
trim(text) ==
  IF Len(text) > 0 /\ SubSeq(text, 1, 1) \in {" ", "\t"}
  THEN trim(SubSeq(text, 2, Len(text)))
  ELSE IF Len(text) > 0 /\ SubSeq(text, Len(text), Len(text)) \in {" ", "\t"}
  THEN trim(SubSeq(text, 1, Len(text) - 1))
  ELSE text

\* generateTitleFromMessage(message)
generateTitleFromMessage(message) ==
  LET words == splitWords(message, 1, "", <<>>, FALSE)
      title == join(SubSeq(words, 1, IF Len(words) < 5 THEN Len(words) ELSE 5))
  IN IF Len(title) > 30 THEN trim(SubSeq(title, 1, 30)) \o "..."
     ELSE IF Len(words) > 5 THEN title \o "..."
     ELSE title

\* generateId(): 'conv_', the time and a random suffix, an id not in use.
generateId(n) == "conv_" \o ToString(n)

\* A conversation; createdAt and updatedAt are left out, nothing reads them
\* but the display.
Conversation(id, title, messages) ==
  [id |-> id, title |-> title, messages |-> messages]

ChatMessage(content, isUser) == [content |-> content, isUser |-> isUser]

\* conversations.findIndex(c => c.id === id), counted from 1, 0 for -1.
findIndex(list, id) ==
  IF \E i \in 1..Len(list) : list[i].id = id
  THEN CHOOSE i \in 1..Len(list) :
         /\ list[i].id = id
         /\ \A k \in 1..(i - 1) : list[k].id # id
  ELSE 0

\* conversations.splice(index, 1)
splice(list, index) ==
  SubSeq(list, 1, index - 1) \o SubSeq(list, index + 1, Len(list))

\* Mutant: the list is never cut.
keepAll(list) == list

\* The cut of addMessage to the first MAX_HISTORY conversations.
limitHistory(list) ==
  IF Len(list) > MAX_HISTORY THEN SubSeq(list, 1, MAX_HISTORY) ELSE list

\* Mutant: the current id stays whatever was deleted.
currentKept(list, current, id) == current

\* The current id after deleteConversation(id) removed the conversation.
currentAfterDelete(list, current, id) ==
  IF current = id
  THEN IF Len(list) > 0 THEN list[1].id ELSE Null
  ELSE current

\* The manager as a value: its fields, the stored history and the count of
\* ids generated.
Manager(list, current, stored, count) ==
  [conversations |-> list, currentConversationId |-> current,
   storedHistory |-> stored, created |-> count]

\* saveHistory()
savedHistory(m) == [m EXCEPT !.storedHistory = m.conversations]

\* createConversation()
createConversation(m) == [m EXCEPT !.currentConversationId = Null]

\* The first part of addMessage: without a current conversation a new one is
\* put in front, the list is cut and saved.
withCurrent(m) ==
  IF m.currentConversationId = Null
  THEN LET id == generateId(m.created + 1)
           list == limitHistory(
                     <<Conversation(id, "New Conversation", <<>>)>>
                       \o m.conversations)
       IN Manager(list, id, list, m.created + 1)
  ELSE m

\* addMessage(content, isUser)
addMessage(m, content, isUser) ==
  LET m1 == withCurrent(m)
      index == findIndex(m1.conversations, m1.currentConversationId)
  IN IF index = 0 THEN m1
     ELSE LET conversation == m1.conversations[index]
              messages == Append(conversation.messages, ChatMessage(content, isUser))
              title == IF isUser /\ Len(messages) = 1
                       THEN generateTitleFromMessage(content)
                       ELSE conversation.title
          IN savedHistory(
               [m1 EXCEPT !.conversations[index] =
                  Conversation(conversation.id, title, messages)])

\* switchConversation(id)
switchConversation(m, id) ==
  IF \E i \in 1..Len(m.conversations) : m.conversations[i].id = id
  THEN [m EXCEPT !.currentConversationId = id]
  ELSE m

\* clearCurrentConversation()
clearCurrentConversation(m) ==
  IF m.currentConversationId # Null
  THEN LET index == findIndex(m.conversations, m.currentConversationId)
           m1 == IF index # 0
                 THEN savedHistory([m EXCEPT !.conversations = splice(@, index)])
                 ELSE m
       IN [m1 EXCEPT !.currentConversationId = Null]
  ELSE m

\* deleteConversation(id)
deleteConversation(m, id) ==
  LET index == findIndex(m.conversations, id)
  IN IF index # 0
     THEN LET m1 == savedHistory([m EXCEPT !.conversations = splice(@, index)])
          IN [m1 EXCEPT !.currentConversationId =
                currentAfterDelete(m1.conversations, @, id)]
     ELSE m

\* Contents a caller of addMessage passes: white space in a run, more than
\* 30 characters, more than five words.
Messages ==
  {"explain  how VectorStore.addChunks saves the index", "a b c d e f"}

\* What the AI handler answers, and what the panel says when it got nothing.
Responses == {"answer"}
FallbackResponse ==
  "I'm sorry, but I wasn't able to process your request at this time. The AI system may still be initializing. Please try again in a moment."

\* The manager the variables hold, and the variables after a call.
TheManager ==
  Manager(conversations, currentConversationId, storedHistory, created)

Becomes(m) ==
  /\ conversations' = m.conversations
  /\ currentConversationId' = m.currentConversationId
  /\ storedHistory' = m.storedHistory
  /\ created' = m.created

\* Conversations an earlier session stored, newest first.
Stored(n) ==
  Conversation("conv_old" \o ToString(n), "fix it",
               <<ChatMessage("fix it", TRUE), ChatMessage("answer", FALSE)>>)

LoadedHistories ==
  { [i \in 1..n |-> Stored(i)] : n \in {0, 1, MAX_HISTORY} }

\* Ids a caller can name: those in the list and one that is not.
KnownIds ==
  {conversations[i].id : i \in 1..Len(conversations)} \cup {"conv_gone"}

\* The state after ChatHistoryManager.getInstance(context): loadHistory()
\* has read the stored history, no conversation is current.
InitHistory ==
  /\ storedHistory \in LoadedHistories
  /\ conversations = storedHistory
  /\ currentConversationId = Null
  /\ created = 0
  /\ added = 0

\* ------------------------------ the public methods of ChatHistoryManager
HistoryOnly ==
  UNCHANGED <<ragVars, chunkerVars, authVars, authHistory, panelVars, panelHistory>>

CallCreateConversation ==
  /\ Becomes(createConversation(TheManager))
  /\ UNCHANGED added
  /\ HistoryOnly

CallAddMessage ==
  /\ added < MaxAdded
  /\ added' = added + 1
  /\ \E isUser \in BOOLEAN :
       \E content \in IF isUser THEN Messages ELSE Responses :
         Becomes(addMessage(TheManager, content, isUser))
  /\ HistoryOnly

CallSwitchConversation ==
  /\ \E id \in KnownIds : Becomes(switchConversation(TheManager, id))
  /\ UNCHANGED added
  /\ HistoryOnly

CallClearCurrentConversation ==
  /\ Becomes(clearCurrentConversation(TheManager))
  /\ UNCHANGED added
  /\ HistoryOnly

CallDeleteConversation ==
  /\ \E id \in KnownIds : Becomes(deleteConversation(TheManager, id))
  /\ UNCHANGED added
  /\ HistoryOnly

InitManager ==
  /\ RagIdle
  /\ ChunkerIdle
  /\ InitHistory
  /\ globalToken = Undefined
  /\ workspaceToken = Undefined
  /\ storedStateParam = Undefined
  /\ currentState = "SignedOut"
  /\ credentials = "both"
  /\ authPending = {}
  /\ generated = 0
  /\ authOps = 0
  /\ validated = {}
  /\ posted = {}
  /\ cleanSignOut = FALSE
  /\ panelCalls = {}
  /\ sends = 0
  /\ chatLog = {}
  /\ replies = {}

NextManager ==
  \/ CallCreateConversation
  \/ CallAddMessage
  \/ CallSwitchConversation
  \/ CallClearCurrentConversation
  \/ CallDeleteConversation

SpecManager == InitManager /\ [][NextManager]_vars

\* ------------------------------------------------------- the chat views
PanelOnly == UNCHANGED <<ragVars, chunkerVars, authVars, authHistory>>

\* What the user types into a chat view; the views do the same with every
\* text.
PanelMessages == {"a b c d e f"}

\* A use of a user message by a chat view, and whether isAuthenticated()
\* holds at that moment.
Use(entry, what) ==
  [entry |-> entry, what |-> what, authenticated |-> isAuthenticated]

\* A message handler suspended in an await; asked and askedAt say where the
\* user message went in the history.
PanelCall(call, entry, stage, message, asked, askedAt) ==
  [call |-> call, entry |-> entry, stage |-> stage, message |-> message,
   asked |-> asked, askedAt |-> askedAt]

\* Number of messages of the current conversation of m, 0 without one.
currentLength(m) ==
  LET index == findIndex(m.conversations, m.currentConversationId)
  IN IF index = 0 THEN 0 ELSE Len(m.conversations[index].messages)

\* ChatPanel._handleUserMessage up to its first await, on 'sendMessage' from
\* the sidebar view.  The call of RAGManager.getRelevantContext is an await
\* here; what it does to the store is followed in Spec.
sendMessage ==
  /\ sends < MaxSends
  /\ sends' = sends + 1
  /\ \E message \in PanelMessages :
       IF ~isAuthenticated
       THEN UNCHANGED <<historyVars, panelCalls, chatLog, replies>>
       ELSE LET m == addMessage(TheManager, message, TRUE)
            IN /\ Becomes(m)
               /\ added' = added + 1
               /\ panelCalls' = panelCalls \cup
                    {PanelCall(sends + 1, "sidebar", "context", message,
                               m.currentConversationId, currentLength(m))}
               /\ chatLog' = chatLog \cup
                    {Use("sidebar", "history"), Use("sidebar", "context")}
               /\ UNCHANGED replies
  /\ PanelOnly

\* getRelevantContext resolved or rejected (the panel goes on without a
\* context): the message is passed to the AI handler.
contextReturns ==
  /\ \E c \in panelCalls :
       /\ c.entry = "sidebar"
       /\ c.stage \in {"context", "exportsContext"}
       /\ panelCalls' = (panelCalls \ {c}) \cup
            {[c EXCEPT !.stage = IF c.stage = "context" THEN "handler"
                                 ELSE "exportsHandler"]}
       /\ chatLog' = chatLog \cup {Use("sidebar", "handler")}
  /\ UNCHANGED <<historyVars, sends, replies>>
  /\ PanelOnly

\* this._historyManager.addMessage(content, false) for call c, which ends.
storeResponse(c, content) ==
  LET m == addMessage(TheManager, content, FALSE)
  IN /\ Becomes(m)
     /\ added' = added + 1
     /\ panelCalls' = panelCalls \ {c}
     /\ replies' = replies \cup
          {[call |-> c.call, asked |-> c.asked, askedAt |-> c.askedAt,
            answered |-> m.currentConversationId,
            answeredAt |-> currentLength(m)]}

\* The AI handler given to the panel returned: with a content, or with none
\* or an exception, and then the panel looks for the exports of the
\* extension under two ids.
handlerReturns ==
  /\ \E c \in panelCalls :
       /\ c.entry = "sidebar"
       /\ c.stage = "handler"
       /\ \/ /\ \E content \in Responses : storeResponse(c, content)
             /\ UNCHANGED chatLog
          \/ /\ panelCalls' = (panelCalls \ {c}) \cup
                  {[c EXCEPT !.stage = "exportsContext"]}
             /\ chatLog' = chatLog \cup {Use("sidebar", "context")}
             /\ UNCHANGED <<historyVars, replies>>
          \/ /\ storeResponse(c, FallbackResponse)
             /\ UNCHANGED chatLog
  /\ UNCHANGED sends
  /\ PanelOnly

\* The AI handler of the exports returned: its content or the fallback text
\* is stored.
exportsHandlerReturns ==
  /\ \E c \in panelCalls :
       /\ c.entry = "sidebar"
       /\ c.stage = "exportsHandler"
       /\ \E content \in Responses \cup {FallbackResponse} :
            storeResponse(c, content)
  /\ UNCHANGED <<sends, chatLog>>
  /\ PanelOnly

\* ChatPanel._createNewConversation, on 'newConversation' and on command
\* memox.newChat.
newConversation ==
  /\ Becomes(createConversation(TheManager))
  /\ UNCHANGED <<added, panelVars, panelHistory>>
  /\ PanelOnly

\* ChatPanel._loadConversation(id), on 'loadConversation' and on command
\* memox.viewChatHistory.
loadConversation ==
  /\ \E id \in KnownIds : Becomes(switchConversation(TheManager, id))
  /\ UNCHANGED <<added, panelVars, panelHistory>>
  /\ PanelOnly

\* The memox.openChat webview, on 'sendMessage': getRelevantContext is
\* called at once.
openChatSendMessage ==
  /\ sends < MaxSends
  /\ sends' = sends + 1
  /\ \E message \in PanelMessages :
       panelCalls' = panelCalls \cup
         {PanelCall(sends + 1, "openChat", "context", message, Null, 0)}
  /\ chatLog' = chatLog \cup {Use("openChat", "context")}
  /\ UNCHANGED <<historyVars, replies>>
  /\ PanelOnly

\* The memox.openChat webview, on 'sendCloudMessage': handleCloudMessage is
\* called at once.
openChatSendCloudMessage ==
  /\ sends < MaxSends
  /\ sends' = sends + 1
  /\ \E message \in PanelMessages :
       panelCalls' = panelCalls \cup
         {PanelCall(sends + 1, "openChat", "handler", message, Null, 0)}
  /\ chatLog' = chatLog \cup {Use("openChat", "handler")}
  /\ UNCHANGED <<historyVars, replies>>
  /\ PanelOnly

\* getRelevantContext returned to the openChat handler: handleUserMessage is
\* called, or the rejection is posted as an error.
openChatContextReturns ==
  /\ \E c \in panelCalls :
       /\ c.entry = "openChat"
       /\ c.stage = "context"
       /\ \/ /\ panelCalls' = (panelCalls \ {c}) \cup {[c EXCEPT !.stage = "handler"]}
             /\ chatLog' = chatLog \cup {Use("openChat", "handler")}
          \/ /\ panelCalls' = panelCalls \ {c}
             /\ UNCHANGED chatLog
  /\ UNCHANGED <<historyVars, sends, replies>>
  /\ PanelOnly

\* The handler returned to the openChat webview: the answer or the error is
\* posted.
openChatHandlerReturns ==
  /\ \E c \in panelCalls :
       /\ c.entry = "openChat"
       /\ c.stage = "handler"
       /\ panelCalls' = panelCalls \ {c}
  /\ UNCHANGED <<historyVars, sends, chatLog, replies>>
  /\ PanelOnly

\* --------------------------------------- signing in and the chat views
\* The state after activate: the AuthService is constructed, no history is
\* stored, no message was sent.
InitSession ==
  /\ RagIdle
  /\ ChunkerIdle
  /\ InitAuth
  /\ storedHistory = <<>>
  /\ conversations = storedHistory
  /\ currentConversationId = Null
  /\ created = 0
  /\ added = 0
  /\ panelCalls = {}
  /\ sends = 0
  /\ chatLog = {}
  /\ replies = {}

\* Signing in and out, without the chat views.
NextAuth ==
  \/ openGitHubAuthInBrowser
  \/ testUriHandler
  \/ handleUri
  \/ manualAuthentication
  \/ exchangeManualCode
  \/ exchangeReturns
  \/ setDirectToken
  \/ setDirectTokenReturns
  \/ validateTokenReturns
  \/ signOut

SpecAuth == InitSession /\ [][NextAuth]_vars

\* The chat views, with signing in by a token and signing out; sign-in
\* operations and messages started share one bound.
GateBudget == sends + authOps < MaxGateOps

\* A session with a valid stored token or none.
InitGate ==
  /\ InitSession
  /\ globalToken \in {Undefined, "ghp_valid"}
  /\ workspaceToken = Undefined
  /\ storedStateParam = Undefined
  /\ credentials = "both"

NextGate ==
  \/ GateBudget /\ setDirectToken
  \/ setDirectTokenReturns
  \/ validateTokenReturns
  \/ signOut
  \/ GateBudget /\ sendMessage
  \/ contextReturns
  \/ handlerReturns
  \/ exportsHandlerReturns
  \/ GateBudget /\ openChatSendMessage
  \/ GateBudget /\ openChatSendCloudMessage
  \/ openChatContextReturns
  \/ openChatHandlerReturns

SpecGate == InitGate /\ [][NextGate]_vars

\* ------------------------------------ the sidebar panel of a signed-in user
\* The state after resolveWebviewView for a user whose token was validated
\* at start-up, with no stored history or one of one conversation.
PanelHistories == { [i \in 1..n |-> Stored(i)] : n \in {0, 1} }

InitPanel ==
  /\ RagIdle
  /\ ChunkerIdle
  /\ storedHistory \in PanelHistories
  /\ conversations = storedHistory
  /\ currentConversationId = Null
  /\ created = 0
  /\ added = 0
  /\ globalToken = "ghp_valid"
  /\ workspaceToken = "ghp_valid"
  /\ storedStateParam = Undefined
  /\ currentState = "SignedIn"
  /\ credentials = "both"
  /\ authPending = {}
  /\ generated = 0
  /\ authOps = 0
  /\ validated = {"ghp_valid"}
  /\ posted = {}
  /\ cleanSignOut = FALSE
  /\ panelCalls = {}
  /\ sends = 0
  /\ chatLog = {}
  /\ replies = {}

NextPanel ==
  \/ sendMessage
  \/ contextReturns
  \/ handlerReturns
  \/ exportsHandlerReturns
  \/ newConversation
  \/ loadConversation

SpecPanel == InitPanel /\ [][NextPanel]_vars

\* ------------------------------------------------------------------ claims
\* Similarity of stored record i to the query of the last completed search.
SearchScore(i) ==
  cosineSimilarity(getEmbedding(searched.query), data[i].embedding)

InRefs(i) == \E a \in 1..Len(searched.refs) : searched.refs[a] = i

\* C1: search(q, k) returns exactly min(k, n) chunks of distinct stored
\* records, listed in non-increasing order of cosine similarity to embed(q),
\* and no record left out is more similar than a record returned.
C1_SearchTopK ==
  searched.done =>
    /\ Len(searched.refs) = Min(searched.k, searched.size)
    /\ \A a \in 1..Len(searched.refs) : searched.refs[a] \in 1..searched.size
    /\ \A a, b \in 1..Len(searched.refs) :
         a < b => /\ searched.refs[a] # searched.refs[b]
                  /\ ScoreDiff(SearchScore(searched.refs[a]),
                               SearchScore(searched.refs[b])) >= 0
    /\ \A a \in 1..Len(searched.refs), i \in 1..searched.size :
         ~InRefs(i) => ScoreDiff(SearchScore(searched.refs[a]), SearchScore(i)) >= 0

\* A search that had to cut: two chunks returned from a larger store, of
\* different similarity, with a strictly less similar record left out.
C1_Witness ==
  /\ searched.done
  /\ searched.k = 2
  /\ searched.size > 2
  /\ ScoreDiff(SearchScore(searched.refs[1]), SearchScore(searched.refs[2])) > 0
  /\ \E i \in 1..searched.size :
       ~InRefs(i) /\ ScoreDiff(SearchScore(searched.refs[2]), SearchScore(i)) > 0

\* C2: every getRelevantContext call ends by returning a string, never by
\* throwing; when the pipeline construction or the embedding call failed, the
\* string is "Error retrieving code context: " followed by the error detail.
C2_ContextTotal ==
  qcall.kind = "context" =>
    /\ qresult.kind \in {"none", "string"}
    /\ qpc = "idle" => qresult.kind = "string"
    /\ (qpc = "idle" /\ qfailure = "pipeline") =>
         qresult.text = "Error retrieving code context: " \o PipelineError
    /\ (qpc = "idle" /\ qfailure = "embedding") =>
         qresult.text = "Error retrieving code context: " \o EmbeddingError

\* getRelevantContext("") has returned after the embedder threw.
C2_Witness ==
  /\ qcall.kind = "context"
  /\ qcall.query = ""
  /\ qpc = "idle"
  /\ qfailure = "embedding"
  /\ qresult.kind = "string"

\* C3: the stored records are mutated only by addChunks: after any sequence
\* of search and getRelevantContext calls every record (content, startLine,
\* endLine, type, embedding) and the record order are what load and addChunks
\* produced.
C3_RecordsUnchanged == data = pristine

\* C4: the embedding capability is constructed at most once per store, for
\* every interleaving of addChunks and search calls: at most one pipeline
\* construction is ever pending or completed (one that failed is not counted).
C4_PipelineOnce == pipelineCalls <= 1

\* The records addChunks appends for a batch, in input order.
BatchRecords(batch) ==
  [i \in 1..Len(batch) |->
     [chunk |-> batch[i], embedding |-> getEmbedding(batch[i].content)]]

\* C5: in the step that completes addChunks(c1..cn) without error, data is
\* the sequence before the call followed by (c1, embed(c1)) .. (cn, embed(cn)),
\* the file was written exactly once in the call, and the file holds the
\* whole of data.
C5_AddChunksAppends ==
  [][ (pc' = "ac_resolved" /\ pc # "ac_resolved") =>
        /\ data' = acBefore' \o BatchRecords(chunks')
        /\ acWrites' = 1
        /\ load(disk') = data' ]_vars

\* C6: when the embedder throws at chunk j, addChunks rejects (it does not go
\* on to later chunks or to save) and the file is what it was before the call.
C6_FailedBatchNotWritten ==
  acError = "embedding" =>
    /\ pc \notin {"ac_pipeline", "ac_initialized", "ac_embedding", "ac_resolved"}
    /\ acWrites = 0
    /\ disk = diskBefore

\* addChunks rejected at its second chunk, after pushing the first.
C6_Witness ==
  /\ acError = "embedding"
  /\ pc = "file_rejected"
  /\ j = 2
  /\ Len(data) = Len(acBefore) + 1

\* C7: after an addChunks call failed, no record of that batch is part of the
\* store, none is in what a later save wrote, and no search returns one.
C7_FailedBatchLost ==
  /\ \A i \in 1..Len(data) : origin[i] \notin failedCalls
  /\ \A i \in 1..Len(savedOrigin) : savedOrigin[i] \notin failedCalls
  /\ searched.done =>
       \A a \in 1..Len(searched.refs) : origin[searched.refs[a]] \notin failedCalls

C9_NoFileAborts ==
  /\ pc # "rejected"
  /\ (~Running /\ pc \notin {"activate", "nofolder", "cancelled"}) =>
       /\ processedFiles = Len(WorkspaceFiles)
       /\ started = 1..Len(WorkspaceFiles)

\* Number of stored records pushed by the addChunks call of file f.
RECURSIVE CountOrigin(_, _)
CountOrigin(f, n) ==
  IF n = 0 THEN 0
  ELSE CountOrigin(f, n - 1) + (IF origin[n] = f THEN 1 ELSE 0)

\* File f has some but not all of its chunks in the store.
PartBatch(f) ==
  /\ CountOrigin(f, Len(origin)) > 0
  /\ CountOrigin(f, Len(origin)) < Len(WorkspaceFiles[f].chunks)

\* C10: once cancellation is requested no further file is started; the run
\* returns as cancelled only at the per-file check, so a file in progress is
\* not interrupted; and a part batch in the store is the batch of the call in
\* progress or of a call that rejected, never an effect of cancellation.
C10_CooperativeCancel ==
  [][ /\ cancelled => started' \subseteq started
      /\ (pc' = "cancelled" /\ pc # "cancelled") => (pc = "check" /\ cancelled)
      /\ \A f \in 1..Len(WorkspaceFiles) :
           PartBatch(f)' => \/ f \in failedCalls'
                            \/ (f = fileIdx' /\ pc' = "ac_embedding") ]_vars

\* Cancellation was requested while the first file was in progress: its whole
\* batch is stored and saved, and the second file was never started.
C10_Witness ==
  /\ pc = "cancelled"
  /\ cancelled
  /\ started = {1}
  /\ CountOrigin(1, Len(origin)) = Len(WorkspaceFiles[1].chunks)
  /\ savedOrigin = origin

\* The file the loop is at is inside the try block of its iteration.
InTryBlock ==
  pc \in {"open", "chunked", "ac_pipeline", "ac_initialized", "ac_embedding",
          "ac_resolved", "file_rejected"}

\* C11: a file reaches chunkFile and addChunks exactly when the size stat
\* reported is at most 1 MiB (1048576 bytes), and only such a file has records
\* in the store; a larger file adds no record, yet counts as processed.
C11_SizeLimit ==
  /\ [](InTryBlock => stat <= 1048576)
  /\ [](pc = "ac_resolved" =>
          CountOrigin(fileIdx, Len(origin)) = Len(WorkspaceFiles[fileIdx].chunks))
  /\ [][ /\ (pc = "stat" /\ pc' \notin {"stat", "rejected"}) =>
             IF stat' <= 1048576
               THEN /\ pc' = "open"
                    /\ processedFiles' = processedFiles
               ELSE /\ pc' = "check"
                    /\ fileIdx' = fileIdx + 1
                    /\ processedFiles' = processedFiles + 1
                    /\ data' = data
                    /\ origin' = origin
                    /\ disk' = disk
         /\ Len(origin') > Len(origin) => stat <= 1048576 ]_vars

\* The first file was over the limit and left no record; the second has
\* exactly 1 MiB and its batch is in the store.
C11_Witness ==
  /\ pc = "ac_resolved"
  /\ fileIdx = 2
  /\ stat = 1048576
  /\ processedFiles = 1
  /\ CountOrigin(1, Len(origin)) = 0
  /\ CountOrigin(2, Len(origin)) = Len(WorkspaceFiles[2].chunks)

\* Chunks of the workspace: the records one complete run adds.
RECURSIVE ChunkTotal(_)
ChunkTotal(n) ==
  IF n = 0 THEN 0 ELSE ChunkTotal(n - 1) + Len(WorkspaceFiles[n].chunks)

\* Records the constructor of this session loaded from the index file.
LoadedLen == Len(origin) - Cardinality({i \in 1..Len(origin) : origin[i] # 0})

\* The run in progress has stored every chunk of every file.
FullRun ==
  /\ failedCalls = {}
  /\ \A f \in 1..Len(WorkspaceFiles) :
       CountOrigin(f, Len(origin)) = Len(WorkspaceFiles[f].chunks)

IsPrefix(s, t) == Len(s) <= Len(t) /\ SubSeq(t, 1, Len(s)) = s

ContextBuilt ==
  qpc = "idle" /\ qresult.kind = "string" /\ qresult.text = "Code context"

\* Estimated tokens (times 25) of one chunk of a block: the characters of
\* its header and of its content with the closing line break.
ChunkCost(c) ==
  chunkHeaderLength(c.startLine, c.endLine, c.type)
    + joinedLength(c.content, Len(c.content)) + 1

RECURSIVE ChunksCost(_, _)
ChunksCost(cs, n) == IF n = 0 THEN 0 ELSE ChunksCost(cs, n - 1) + ChunkCost(cs[n])

\* Estimated tokens (times 25) of a file block: its header and its chunks.
BlockCost(b) == headerTokens(b.filename) + ChunksCost(b.chunks, Len(b.chunks))

\* Estimated tokens (times 25) of the first n blocks of the output.
RECURSIVE RunningTotal(_, _)
RunningTotal(context, n) ==
  IF n = 0 THEN 0 ELSE RunningTotal(context, n - 1) + BlockCost(context[n])

\* The file groups of the call, in the order the loop visits them.
VisitOrder ==
  prioritizedKeys(ownKeys(groupKeys(qrefs, pristine, Len(qrefs))), qcall.query)

\* The block the loop builds for a file from the records as they were handed
\* to the call.
BlockOf(filename, fileCount) ==
  LET group == chunksOfFile(qrefs, pristine, filename, Len(qrefs))
      merged == mergeLoop(sortByStartLine(group, pristine, Len(group)), 1, <<>>,
                          pristine)
      built == chunkLoop(merged.mergedChunks, 1, merged.store,
                         targetTokensPerFile(DefaultMaxTokens, fileCount),
                         [fileTokens |-> headerTokens(filename),
                          includeCompleteFile |-> TRUE, chunks |-> <<>>])
  IN [filename |-> filename, chunks |-> built.chunks,
      omitted |-> ~built.includeCompleteFile,
      merged |-> Len(merged.mergedChunks)]

\* C13: the running total of the estimated tokens of the file blocks placed
\* in the output never exceeds maxTokens; the blocks placed are those of the
\* first files in visiting order, and the first file left out is one whose
\* block (or already its header) would have taken the total over maxTokens.
C13_TotalWithinBudget ==
  ContextBuilt =>
    LET context == qresult.context
        placed == Len(context)
        total == RunningTotal(context, placed)
    IN /\ \A n \in 0..placed : RunningTotal(context, n) <= 25 * 1536
       /\ placed <= Len(VisitOrder)
       /\ \A n \in 1..placed : context[n].filename = VisitOrder[n]
       /\ qresult.remainingFiles = Len(VisitOrder) - placed
       /\ placed < Len(VisitOrder) =>
            LET next == BlockOf(VisitOrder[placed + 1], Len(VisitOrder))
            IN total + BlockCost(next) > 25 * 1536

\* Six files were retrieved: five blocks are placed, and although the header
\* of the sixth would still fit, its block would not, so it is left out.
C13_Witness ==
  /\ ContextBuilt
  /\ Len(VisitOrder) = 6
  /\ Len(qresult.context) = 5
  /\ qresult.remainingFiles = 1
  /\ RunningTotal(qresult.context, 5) + 25 * 6 <= 25 * 1536

\* The merged chunks of a file, built from the records as they were handed
\* to the call, each as the block would show it.
MergedOf(filename) ==
  LET group == chunksOfFile(qrefs, pristine, filename, Len(qrefs))
      merged == mergeLoop(sortByStartLine(group, pristine, Len(group)), 1, <<>>,
                          pristine)
  IN [k \in 1..Len(merged.mergedChunks) |->
        [startLine |-> pristine[merged.mergedChunks[k].ref].chunk.metadata.startLine,
         endLine |-> merged.mergedChunks[k].endLine,
         type |-> pristine[merged.mergedChunks[k].ref].chunk.metadata.type,
         content |-> merged.mergedChunks[k].content]]

InList(list, x) == \E i \in 1..Len(list) : list[i] = x

\* C14: the estimated cost of every file block placed is at most
\* targetTokensPerFile = floor(maxTokens / min(fileCount, 5)); its chunks are
\* the first merged chunks of the file; the file is listed as partial, and
\* its block ends with the omission note, exactly when a merged chunk was
\* left out because it would take the block over that share, and is listed
\* as complete otherwise.
C14_FileShare ==
  ContextBuilt =>
    LET target == 1536 \div (IF Len(VisitOrder) < 5 THEN Len(VisitOrder) ELSE 5)
    IN \A n \in 1..Len(qresult.context) :
         LET b == qresult.context[n]
             merged == MergedOf(b.filename)
             shown == Len(b.chunks)
         IN /\ BlockCost(b) <= 25 * target
            /\ shown <= Len(merged)
            /\ \A k \in 1..shown : b.chunks[k] = merged[k]
            /\ b.omitted <=> shown < Len(merged)
            /\ b.omitted => BlockCost(b) + ChunkCost(merged[shown + 1]) > 25 * target
            /\ InList(qresult.partialFiles, b.filename) <=> b.omitted
            /\ InList(qresult.includedFiles, b.filename) <=> ~b.omitted

\* Of six files the first has a chunk of 7000 characters, which fits the
\* share of 307 tokens, the second one of 8000, which does not: one block is
\* complete, the other is a header with the omission note.
C14_Witness ==
  /\ ContextBuilt
  /\ Len(VisitOrder) = 6
  /\ Len(qresult.context) >= 2
  /\ ~qresult.context[1].omitted
  /\ Len(qresult.context[1].chunks) = 1
  /\ qresult.context[2].omitted
  /\ Len(qresult.context[2].chunks) = 0
  /\ qresult.partialFiles = <<"f2.ts">>

\* The file names of the retrieved chunks in first-seen order.
FirstSeen == groupKeys(qrefs, pristine, Len(qrefs))

\* The subsequence of names that contain (or do not contain) the file the
\* query names, letter case ignored.
RECURSIVE Matching(_, _, _)
Matching(names, wanted, keep) ==
  IF names = <<>> THEN <<>>
  ELSE LET rest == Matching(Tail(names), wanted, keep)
       IN IF includes(toLowerCase(Head(names)), toLowerCase(wanted)) = keep
          THEN <<Head(names)>> \o rest
          ELSE rest

\* The order the claim describes: matching files first when the query names
\* a file that some group matches, first-seen order otherwise and inside
\* each class.
ClaimedOrder ==
  LET wanted == specificFile(qcall.query)
  IN IF wanted # "null" /\ Matching(FirstSeen, wanted, TRUE) # <<>>
     THEN Matching(FirstSeen, wanted, TRUE) \o Matching(FirstSeen, wanted, FALSE)
     ELSE FirstSeen

\* C15: the file blocks of the output follow the order in which every group
\* that matches the file named by the query comes before every group that
\* does not, first-seen order kept inside each class, and plain first-seen
\* order when the query names no file or no group matches.
C15_PriorityOrder ==
  ContextBuilt =>
    /\ Len(qresult.context) <= Len(ClaimedOrder)
    /\ \A n \in 1..Len(qresult.context) :
         qresult.context[n].filename = ClaimedOrder[n]

\* Positions in the store of the retrieved chunks of a file.
GroupOf(filename) ==
  {qrefs[a] : a \in {b \in 1..Len(qrefs) :
                      pristine[qrefs[b]].chunk.metadata.filename = filename}}

\* The retrieved chunks of the file whose first line lies within the lines
\* of merged chunk m.
Members(filename, m) ==
  {r \in GroupOf(filename) :
     /\ m.startLine <= pristine[r].chunk.metadata.startLine
     /\ pristine[r].chunk.metadata.startLine <= m.endLine}

Occurrences(seq, x) == Cardinality({i \in 1..Len(seq) : seq[i] = x})

\* C16: within one file group, after sorting and merging, the merged chunks
\* are in strictly increasing startLine order, each starts more than 3 lines
\* after the end of the one before, each has the least startLine and the
\* greatest endLine of the chunks merged into it and their contents, and
\* every retrieved chunk of the file is part of exactly one merged chunk.
C16_MergedChunks ==
  ContextBuilt =>
    \A n \in 1..Len(qresult.context) :
      LET filename == qresult.context[n].filename
          merged == MergedOf(filename)
      IN /\ \A k \in 1..(Len(merged) - 1) :
              /\ merged[k].startLine < merged[k + 1].startLine
              /\ merged[k + 1].startLine > merged[k].endLine + 3
         /\ \A r \in GroupOf(filename) :
              Cardinality({k \in 1..Len(merged) : r \in Members(filename, merged[k])}) = 1
         /\ \A k \in 1..Len(merged) :
              LET members == Members(filename, merged[k])
              IN /\ members # {}
                 /\ \A r \in members :
                      /\ merged[k].startLine <= pristine[r].chunk.metadata.startLine
                      /\ merged[k].endLine >= pristine[r].chunk.metadata.endLine
                 /\ \E r \in members :
                      merged[k].startLine = pristine[r].chunk.metadata.startLine
                 /\ \E r \in members :
                      merged[k].endLine = pristine[r].chunk.metadata.endLine
                 /\ Len(merged[k].content) = Cardinality(members)
                 /\ \A r \in members :
                      Occurrences(merged[k].content, pristine[r].chunk.content)
                        = Cardinality({t \in members : pristine[t].chunk.content
                                                        = pristine[r].chunk.content})
         /\ \A k \in 1..Len(qresult.context[n].chunks) :
              qresult.context[n].chunks[k] = merged[k]

\* Four chunks of a.ts were retrieved, the last lines first: lines 0-5, 6-10
\* and 13-20 became one merged chunk of lines 0-20, lines 24-30 another.
C16_Witness ==
  /\ ContextBuilt
  /\ Len(qrefs) = 4
  /\ pristine[qrefs[1]].chunk.metadata.startLine = 24
  /\ Len(qresult.context) = 1
  /\ Len(MergedOf("a.ts")) = 2
  /\ MergedOf("a.ts")[1].startLine = 0
  /\ MergedOf("a.ts")[1].endLine = 20
  /\ Len(MergedOf("a.ts")[1].content) = 3
  /\ MergedOf("a.ts")[2].startLine = 24
  /\ qresult.context[1].chunks = <<MergedOf("a.ts")[1]>>

\* C17: getRelevantContext returns exactly "No relevant code context found
\* for this query." if and only if its top-10 search returned no chunk, which
\* happens if and only if the store was empty when it was searched; with one
\* or more records in the store searched the sentinel is never returned.
C17_SentinelIffEmpty ==
  (qcall.kind = "context" /\ qpc = "idle" /\ qresult.kind = "string") =>
    /\ qresult.text = NoContextFound <=> (searched.done /\ Len(searched.refs) = 0)
    /\ searched.done =>
         /\ searched.k = 10
         /\ Len(searched.refs) = 0 <=> searched.size = 0

\* getRelevantContext has returned file blocks from a store of one record.
C17_Witness ==
  /\ qcall.kind = "context"
  /\ qpc = "idle"
  /\ searched.done
  /\ searched.size = 1
  /\ Len(searched.refs) = 1
  /\ qresult.kind = "string"
  /\ qresult.text = "Code context"

\* ---- claims about the chunker
\* chunkFile has returned.
Chunked == cpc = "returned"

\* Positions of the firstStage chunks that splitByTokenSize was applied to.
SplitChunks == {k \in 1..Len(firstStage) : firstStage[k].metadata.type # "whole-file"}

\* What splitByTokenSize returned for firstStage[k].
PiecesOf(k) == filterNonEmpty(emitted[k])

\* A line-block: one input line whose own token cost exceeds maxTokens.
IsLineBlock(piece) ==
  /\ piece.metadata.type = "line-block"
  /\ Len(piece.content) = 1
  /\ encodeLength(piece.content[1]) > 512

\* C18: every piece token-size splitting produces has a total token cost of
\* at most maxTokens (512), unless it is a line-block piece, a single input
\* line that alone costs more; this includes a piece that begins with the
\* overlap lines of the piece before it.
C18_PieceWithinBudget ==
  Chunked =>
    /\ \A k \in SplitChunks : \A i \in 1..Len(PiecesOf(k)) :
         IsLineBlock(PiecesOf(k)[i]) \/ TokenSum(PiecesOf(k)[i].content) <= 512
    /\ \A i \in 1..Len(returned) :
         \/ returned[i].metadata.type = "whole-file"
         \/ IsLineBlock(returned[i])
         \/ TokenSum(returned[i].content) <= 512

\* The last 50 lines of a piece, or all of them when it has fewer.
LastLines(content) ==
  SubSeq(content, (IF Len(content) > 50 THEN Len(content) - 50 ELSE 0) + 1,
         Len(content))

\* The piece holds the lines of chunk c that its startLine and endLine name.
HoldsItsLines(piece, c) ==
  LET first == piece.metadata.startLine - c.metadata.startLine + 1
      last == piece.metadata.endLine - c.metadata.startLine + 1
  IN /\ 1 <= first
     /\ last <= Len(c.content)
     /\ piece.content = SubSeq(c.content, first, last)

\* Piece next begins with the last lines of piece prev and goes on with the
\* input lines after prev.
Overlaps(prev, next) ==
  LET kept == LastLines(prev.content)
  IN /\ Len(next.content) > Len(kept)
     /\ SubSeq(next.content, 1, Len(kept)) = kept
     /\ next.metadata.startLine = prev.metadata.endLine + 1 - Len(kept)

\* Every line of chunk c lies in some piece.
Covers(pieces, c) ==
  \A n \in 1..Len(c.content) :
    \E i \in 1..Len(pieces) :
      /\ pieces[i].metadata.startLine <= c.metadata.startLine + n - 1
      /\ c.metadata.startLine + n - 1 <= pieces[i].metadata.endLine

\* C19 as stated: whenever a chunk is split into several pieces, piece i + 1
\* begins with the last 50 lines of piece i (all of them if it has fewer),
\* followed by the input lines after piece i, and the pieces cover every
\* input line.
C19_OverlapEveryPiece ==
  Chunked =>
    \A k \in SplitChunks :
      LET pieces == PiecesOf(k) IN
      Len(pieces) > 1 =>
        /\ \A i \in 1..Len(pieces) : HoldsItsLines(pieces[i], firstStage[k])
        /\ \A i \in 1..(Len(pieces) - 1) : Overlaps(pieces[i], pieces[i + 1])
        /\ Covers(pieces, firstStage[k])

\* C19, amended: of the pieces the loop of splitByTokenSize emits (those of
\* white space only, dropped afterwards, included), a piece that follows a
\* piece other than a line-block begins with the last 50 lines of it (all of
\* them if it has fewer), followed by the input lines after it; a piece that
\* follows a line-block begins at the line after it and repeats nothing; the
\* emitted pieces hold the input lines their line numbers name and cover
\* every input line; the loop ends after one pass over the lines, having
\* emitted at most one piece for each input line; the pieces returned are the
\* emitted ones that are not white space only.
C19_OverlapAfterBuffer ==
  Chunked =>
    \A k \in SplitChunks :
      LET pieces == emitted[k] IN
        /\ Len(pieces) <= Len(firstStage[k].content)
        /\ \A i \in 1..Len(pieces) : HoldsItsLines(pieces[i], firstStage[k])
        /\ \A i \in 1..(Len(pieces) - 1) :
             IF pieces[i].metadata.type = "line-block"
             THEN pieces[i + 1].metadata.startLine = pieces[i].metadata.endLine + 1
             ELSE Overlaps(pieces[i], pieces[i + 1])
        /\ Covers(pieces, firstStage[k])
        /\ \A i \in 1..Len(PiecesOf(k)) :
             \E e \in 1..Len(pieces) :
               PiecesOf(k)[i] = pieces[e] /\ nonEmptyAfterTrim(pieces[e])
        /\ Len(PiecesOf(k))
             = Cardinality({e \in 1..Len(pieces) : nonEmptyAfterTrim(pieces[e])})

\* A document of more than 52 lines was split: the first piece has 51 lines,
\* the second begins one line later with its last 50, and a piece later on
\* was emitted after a flush.
C19_Witness ==
  /\ Chunked
  /\ document.filename = "notes.txt"
  /\ Len(firstStage) = 1
  /\ Len(emitted[1]) >= 3
  /\ Len(emitted[1][1].content) = 51
  /\ emitted[1][2].metadata.startLine = 1
  /\ Len(PiecesOf(1)) = Len(emitted[1])

\* The single whole-file chunk of the document.
WholeFile ==
  CodeChunk(document.content, document.filename, document.language,
            0, Len(document.content) - 1, "whole-file")

\* The name of the document is readme.md in some letter case.
NamedReadme ==
  document.filename \in {"README.md", "ReadMe.MD", "readme.md", "Readme.md"}

Unit(k) ==
  <<firstStage[k].metadata.type, firstStage[k].metadata.startLine,
    firstStage[k].metadata.endLine>>

\* The units splitBySemanticUnits returned, in order.
Units == [k \in 1..Len(firstStage) |-> Unit(k)]

\* C21: semantic splitting of the 20-line TypeScript file with function foo
\* on lines 3 to 10 and class Bar on lines 12 to 19 yields exactly three
\* chunks: a block of lines 0 to 2, a function of lines 3 to 10 and a class
\* of lines 12 to 19.
C21_ThreeSemanticChunks ==
  (Chunked /\ document.content \in SemanticExamples) =>
    Units = << <<"block", 0, 2>>, <<"function", 3, 10>>, <<"class", 12, 19>> >>

\* C22: a non-empty token is stored only if that token has passed a call
\* of the GitHub user API, on every path that stores a token; a token found
\* at start-up counts while its validation is on the way.
C22_TokensValidated ==
  isAuthenticated =>
    \/ getAuthToken \in validated
    \/ \E c \in authPending : c.op = "validateToken" /\ c.arg = getAuthToken

\* C23: a code is posted to the token endpoint only when the state that came
\* with it equals the state stored by the latest generateStateParam, at
\* every entry point that accepts a code.
C23_StateChecked ==
  \A p \in posted : Truthy(p.stored) /\ p.came = p.stored

\* C26: from signOut until a sign-in operation begins, no token is stored in
\* global or workspace state, no state parameter is stored and the state is
\* SignedOut, whatever call that began before the sign-out returns.
C26_SignOutClears ==
  cleanSignOut =>
    /\ ~Truthy(globalToken)
    /\ ~Truthy(workspaceToken)
    /\ storedStateParam = Undefined
    /\ currentState = "SignedOut"

\* C27: whenever no sign-in or validation call is on the way, the state is
\* SignedIn exactly if isAuthenticated() holds.
C27_StateMatchesToken ==
  authPending = {} => (currentState = "SignedIn" <=> isAuthenticated)

\* C24: a user message is added to the chat history or passed to
\* getRelevantContext or an AI handler only while isAuthenticated() holds,
\* in the sidebar panel and in the memox.openChat webview.
C24_ChatNeedsAuth ==
  \A u \in chatLog : u.authenticated

\* Number of the first n stored records that the addChunks call of file f
\* pushed, in a list of origins.
RECURSIVE CountIn(_, _, _)
CountIn(list, f, n) ==
  IF n = 0 THEN 0
  ELSE CountIn(list, f, n - 1) + (IF list[n] = f THEN 1 ELSE 0)

\* The first n records of the list hold some but not all chunks of file f.
PartIn(list, f, n) ==
  /\ CountIn(list, f, n) > 0
  /\ CountIn(list, f, n) < Len(WorkspaceFiles[f].chunks)

\* The records of one addChunks call are neighbours in the list.
Contiguous(list) ==
  \A a, b \in 1..Len(list) :
    (a < b /\ list[a] = list[b]) => \A c \in a..b : list[c] = list[a]

Ids(list) == {list[i].id : i \in 1..Len(list)}

\* C28: the list never holds more than MAX_HISTORY conversations; a new
\* conversation is put in front of the others, which keep their order, and
\* when the list was full the one dropped is the last.
C28_AtMostMaxHistory ==
  [][ /\ Len(conversations) <= MAX_HISTORY
      /\ Len(conversations') <= MAX_HISTORY
      /\ Ids(conversations') \ Ids(conversations) # {} =>
           /\ conversations'[1].id \notin Ids(conversations)
           /\ Len(conversations') =
                IF Len(conversations) < MAX_HISTORY
                THEN Len(conversations) + 1 ELSE MAX_HISTORY
           /\ \A i \in 2..Len(conversations') :
                conversations'[i].id = conversations[i - 1].id
           /\ storedHistory' = conversations' ]_vars

\* A first message arrived with six conversations stored: the new
\* conversation is first and the oldest stored one is gone.
C28_Witness ==
  /\ Len(conversations) = MAX_HISTORY
  /\ conversations[1].id = generateId(1)
  /\ conversations[MAX_HISTORY] = Stored(MAX_HISTORY - 1)
  /\ Stored(MAX_HISTORY).id \notin Ids(conversations)

\* C29: the current id is null or the id of a conversation in the list; a
\* conversation is added only by an addMessage call made with no current
\* conversation, and it becomes the current one; no other call adds one.
C29_CurrentIsListed ==
  [][ /\ currentConversationId = Null \/ currentConversationId \in Ids(conversations)
      /\ currentConversationId' = Null \/ currentConversationId' \in Ids(conversations')
      /\ createConversation(TheManager).conversations = conversations
      /\ Ids(conversations') \ Ids(conversations) # {} =>
           /\ currentConversationId = Null
           /\ added' = added + 1
           /\ Ids(conversations') \ Ids(conversations) = {currentConversationId'} ]_vars

\* Two conversations were begun with the list full, createConversation in
\* between: the second is current, the first is kept behind it.
C29_Witness ==
  /\ created = 2
  /\ Len(conversations) = MAX_HISTORY
  /\ currentConversationId = generateId(2)
  /\ conversations[1].id = generateId(2)
  /\ conversations[2].id = generateId(1)

\* C30: every assistant response the sidebar panel stores goes to the
\* conversation its user message went to, as the message right after it,
\* whatever other webview messages were handled while the AI call was pending.
C30_ResponseFollowsMessage ==
  \A r \in replies :
    /\ r.answered = r.asked
    /\ r.answeredAt = r.askedAt + 1

====
